---------------------------- MODULE Spec2Model ----------------------------
(***************************************************************************)
(* A model of the QZH TEI-XML preview (stazh/qzh_preview_xml).             *)
(*                                                                         *)
(* The transform engine of src/js/parser.js (the newer variant, lines      *)
(* 1-1092) is modelled as a stack machine: one frame per active call of    *)
(* transform, transformNode, transformChildren and transformBackMatter,    *)
(* one action per step between two calls.  The module-level variables of   *)
(* the engine are state variables.  Strings are sequences of one-character *)
(* strings; HTML output is a sequence of tokens.                           *)
(***************************************************************************)
EXTENDS Integers, Sequences, FiniteSets, TLC

VARIABLES
    doc,              \* the document tree handed to the running transform()
    stack,            \* call stack of the engine, innermost frame last
    ret,              \* value returned by the call that finished last
    threw,            \* TRUE once an exception has left transform()
    normalizedMode,   \* parser.js:25
    footnoteCounter,  \* parser.js:14
    footnotes,        \* parser.js:15: a reference to an array in heap
    heap,             \* the footnote arrays, by reference
    persons,          \* parser.js:18
    places,           \* parser.js:19
    organizations,    \* parser.js:20
    terms,            \* parser.js:21
    result,           \* the result object transform() is building (parser.js:58)
    held,             \* the result the caller received from the last call
    fnSrc,            \* history: the element that produced each footnote
    session,          \* environment: TRUE = several calls, FALSE = one call
    prevDoc,          \* history: the document of the call before this one
    fIn,              \* input of the pure function under check
    fOut,             \* its output
    fOut2,            \* output of a second application
    fPc,              \* position of the pure-function driver
    page,             \* what the page shows (the elements app init() looks up)
    loads,            \* the file loads started so far, each with its FileReader
    tooltips,         \* tooltips.js:9-11 with the pending timers and frame callback
    pointer           \* environment: the element the mouse pointer is on

vars == << doc, stack, ret, threw, normalizedMode, footnoteCounter, footnotes,
           heap, persons, places, organizations, terms, result, held, fnSrc,
           session, prevDoc, fIn, fOut, fOut2, fPc, page, loads,
           tooltips, pointer >>

engineVars == << doc, stack, ret, threw, normalizedMode, footnoteCounter,
                 footnotes, heap, persons, places, organizations, terms,
                 result, held, fnSrc, session, prevDoc >>

funVars == << fIn, fOut, fOut2, fPc >>

tipVars == << tooltips, pointer >>

appVars == << page, loads, tooltips, pointer >>

-----------------------------------------------------------------------------
(* Strings *)

Concat(ss) ==
    LET RECURSIVE cat(_)
        cat(i) == IF i > Len(ss) THEN <<>> ELSE ss[i] \o cat(i + 1)
    IN  cat(1)

\* White space as String.prototype.trim() sees it.
IsSpace(c) == c \in {" ", "\t", "\n"}

RECURSIVE TrimStart(_)
TrimStart(s) ==
    IF s # <<>> /\ IsSpace(Head(s)) THEN TrimStart(Tail(s)) ELSE s

RECURSIVE TrimEnd(_)
TrimEnd(s) ==
    IF s # <<>> /\ IsSpace(s[Len(s)]) THEN TrimEnd(SubSeq(s, 1, Len(s) - 1)) ELSE s

Trim(s) == TrimEnd(TrimStart(s))

-----------------------------------------------------------------------------
(* The document tree (DOM): text nodes and elements *)

\* A text node.
T(chars) == [tag |-> "#text", attrs |-> <<>>, kids |-> <<>>, text |-> chars]

\* An element: local name, attributes in document order, child nodes.
E(tag, attrs, kids) == [tag |-> tag, attrs |-> attrs, kids |-> kids, text |-> <<>>]

IsText(n) == n.tag = "#text"

\* node.getAttribute(name) || '' : the value, or the empty string when absent.
Attr(n, name) ==
    IF \E i \in 1..Len(n.attrs) : n.attrs[i][1] = name
    THEN n.attrs[CHOOSE i \in 1..Len(n.attrs) :
                    /\ n.attrs[i][1] = name
                    /\ \A j \in 1..(i - 1) : n.attrs[j][1] # name][2]
    ELSE <<>>

\* The null reference, as a path no node has.
Null == << 0 >>

RECURSIVE NodeAt(_, _)
NodeAt(d, path) ==
    IF path = <<>> THEN d ELSE NodeAt(d.kids[Head(path)], Tail(path))

\* node.parentElement: the path of the parent, Null for the root.
Parent(path) == IF path = <<>> THEN Null ELSE SubSeq(path, 1, Len(path) - 1)

\* node.textContent: the text of all descendant text nodes, concatenated.
RECURSIVE TextContent(_)
TextContent(n) ==
    IF IsText(n) THEN n.text
    ELSE Concat([i \in 1..Len(n.kids) |-> TextContent(n.kids[i])])

\* The paths of the descendants of the node at path, in document order.
RECURSIVE Descendants(_, _)
Descendants(d, path) ==
    LET n == NodeAt(d, path)
    IN  Concat([i \in 1..Len(n.kids) |->
                  << path \o <<i>> >> \o Descendants(d, path \o <<i>>)])

\* node.querySelectorAll(tag): descendant elements of that local name.
QuerySelectorAll(d, path, tag) ==
    SelectSeq(Descendants(d, path), LAMBDA p : NodeAt(d, p).tag = tag)

\* node.querySelector(tag): the first of them, or null.
QuerySelector(d, path, tag) ==
    LET all == QuerySelectorAll(d, path, tag)
    IN  IF all = <<>> THEN Null ELSE all[1]

\* xmlDoc.querySelector(tag): the search starts above the root element.
DocQuerySelector(d, tag) ==
    IF d.tag = tag THEN <<>> ELSE QuerySelector(d, <<>>, tag)

\* p begins before q in the document (preorder).
RECURSIVE Precedes(_, _)
Precedes(p, q) ==
    IF p = <<>> THEN q # <<>>
    ELSE IF q = <<>> THEN FALSE
    ELSE IF Head(p) = Head(q) THEN Precedes(Tail(p), Tail(q))
    ELSE Head(p) < Head(q)


-----------------------------------------------------------------------------
(* HTML output: a sequence of tokens *)

\* k: kind; v: tag and classes, or fixed text; n: a footnote number;
\* s: characters of document text; tip: the data-tooltip value; tt: its type.
Tok(k, v, n, s, tip, tt) ==
    [k |-> k, v |-> v, n |-> n, s |-> s, tip |-> tip, tt |-> tt]

\* Document text (already escaped).
TextTok(s) == Tok("text", "", 0, s, <<>>, "")

\* Fixed text written by the code.
Lit(v) == Tok("lit", v, 0, <<>>, <<>>, "")

\* An opening tag with its classes and, when tip is not empty, the
\* data-tooltip / data-tooltip-type attribute pair.
Open(v, tip, tt) == Tok("open", v, 0, <<>>, tip, tt)

Close(v) == Tok("close", v, 0, <<>>, <<>>, "")

Wrap(v, tip, tt, inner) == << Open(v, tip, tt) >> \o inner \o << Close(v) >>

\* The value null of result.body and result.back.
NullHtml == << Tok("null", "", 0, <<>>, <<>>, "") >>

\* The no-break space, U+00A0.
Nbsp == " "

\* A faulty variant: the ampersand is left as it is.
EscapeHTMLCharKeepAmp(c) ==
    CASE c = "<"  -> << "&", "l", "t", ";" >>
      [] c = ">"  -> << "&", "g", "t", ";" >>
      [] c = Nbsp -> << "&", "n", "b", "s", "p", ";" >>
      [] OTHER    -> << c >>

\* escapeHTML: div.innerHTML serialises the text with & < > and the
\* no-break space replaced; the quote characters stay.
EscapeHTMLChar(c) ==
    CASE c = "&"  -> << "&", "a", "m", "p", ";" >>
      [] c = "<"  -> << "&", "l", "t", ";" >>
      [] c = ">"  -> << "&", "g", "t", ";" >>
      [] c = Nbsp -> << "&", "n", "b", "s", "p", ";" >>
      [] OTHER    -> << c >>

EscapeHTML(text) == Concat([i \in 1..Len(text) |-> EscapeHTMLChar(text[i])])

\* escapeAttr: & " ' < > replaced.
EscapeAttrChar(c) ==
    CASE c = "&"  -> << "&", "a", "m", "p", ";" >>
      [] c = "\"" -> << "&", "q", "u", "o", "t", ";" >>
      [] c = "'"  -> << "&", "#", "3", "9", ";" >>
      [] c = "<"  -> << "&", "l", "t", ";" >>
      [] c = ">"  -> << "&", "g", "t", ";" >>
      [] OTHER    -> << c >>

EscapeAttr(text) == Concat([i \in 1..Len(text) |-> EscapeAttrChar(text[i])])

\* A tooltip made of document text: empty text gives an empty tooltip part.
TipText(text) == IF text = <<>> THEN <<>> ELSE << TextTok(EscapeAttr(text)) >>

\* escapeAttr applied to an HTML string: the markup becomes attribute text.
EscapeAttrHtml(html) ==
    IF html = <<>> THEN <<>>
    ELSE << Tok("escaped", "", 0, <<>>,
                [i \in 1..Len(html) |->
                    IF html[i].k = "text"
                    THEN [html[i] EXCEPT !.s = EscapeAttr(@)]
                    ELSE html[i]], "") >>

\* String.prototype.trim() on an HTML string: white space can only stand in
\* the text tokens at its two ends.
RECURSIVE TrimHtmlStart(_)
TrimHtmlStart(html) ==
    IF html = <<>> \/ Head(html).k # "text" THEN html
    ELSE LET t == TrimStart(Head(html).s)
         IN  IF t = <<>> THEN TrimHtmlStart(Tail(html))
             ELSE << TextTok(t) >> \o Tail(html)

RECURSIVE TrimHtmlEnd(_)
TrimHtmlEnd(html) ==
    IF html = <<>> \/ html[Len(html)].k # "text" THEN html
    ELSE LET t == TrimEnd(html[Len(html)].s)
             front == SubSeq(html, 1, Len(html) - 1)
         IN  IF t = <<>> THEN TrimHtmlEnd(front)
             ELSE front \o << TextTok(t) >>

TrimHtml(html) == TrimHtmlEnd(TrimHtmlStart(html))

-----------------------------------------------------------------------------
(* Entity registers *)

Entity(name, ref, role) == [name |-> name, ref |-> ref, role |-> role]

\* The collation weights of a character under the German locale: letters
\* differ first by base letter, then by accent, then by case.
Primary(c) ==
    CASE c \in {"a", "A", "ä"} -> 1
      [] c = "b" -> 2
      [] c = "z" -> 3
      [] OTHER -> 0

Secondary(c) == IF c = "ä" THEN 1 ELSE 0

Tertiary(c) == IF c = "A" THEN 1 ELSE 0

\* Lexicographic comparison of two weight sequences: -1, 0 or 1.
RECURSIVE CompareWeights(_, _)
CompareWeights(x, y) ==
    IF x = <<>> THEN (IF y = <<>> THEN 0 ELSE -1)
    ELSE IF y = <<>> THEN 1
    ELSE IF Head(x) < Head(y) THEN -1
    ELSE IF Head(x) > Head(y) THEN 1
    ELSE CompareWeights(Tail(x), Tail(y))

\* a.localeCompare(b, 'de')
LocaleCompare(a, b) ==
    LET p == CompareWeights([i \in 1..Len(a) |-> Primary(a[i])],
                            [i \in 1..Len(b) |-> Primary(b[i])])
        s == CompareWeights([i \in 1..Len(a) |-> Secondary(a[i])],
                            [i \in 1..Len(b) |-> Secondary(b[i])])
        t == CompareWeights([i \in 1..Len(a) |-> Tertiary(a[i])],
                            [i \in 1..Len(b) |-> Tertiary(b[i])])
    IN  IF p # 0 THEN p ELSE IF s # 0 THEN s ELSE t

\* A faulty variant of the key: the name alone.
EntityKeyByName(entity) == entity.name

\* const key = entity.ref || entity.name
EntityKey(entity) == IF entity.ref # <<>> THEN entity.ref ELSE entity.name

\* The Map 'seen' after the loop, as its values in insertion order: the
\* first entity of each key.
RECURSIVE SeenValues(_, _)
SeenValues(entities, seen) ==
    IF entities = <<>> THEN seen
    ELSE LET entity == Head(entities)
             has == \E i \in 1..Len(seen) : EntityKey(seen[i]) = EntityKey(entity)
         IN  SeenValues(Tail(entities),
                        IF has THEN seen ELSE Append(seen, entity))

\* Where a stable sort places e among the already sorted entries: behind
\* every entry that does not sort after it.
\* A faulty variant: an unstable sort, which places e in front of the
\* entries that compare equal to it.
InsertPosUnstable(sorted, e) ==
    Cardinality({i \in 1..Len(sorted) :
                    LocaleCompare(sorted[i].name, e.name) < 0})

InsertPos(sorted, e) ==
    Cardinality({i \in 1..Len(sorted) :
                    LocaleCompare(sorted[i].name, e.name) <= 0})

\* Array.prototype.sort with the comparator a.name.localeCompare(b.name, 'de').
RECURSIVE SortByName(_, _)
SortByName(entities, sorted) ==
    IF entities = <<>> THEN sorted
    ELSE LET e == Head(entities)
             k == InsertPos(sorted, e)
         IN  SortByName(Tail(entities),
                        SubSeq(sorted, 1, k) \o << e >>
                            \o SubSeq(sorted, k + 1, Len(sorted)))

\* A faulty variant: the values of the Map, without the sort.
DeduplicateEntitiesUnsorted(entities) == SeenValues(entities, <<>>)

\* Array.from(seen.values()).sort(...)
deduplicateEntities(entities) ==
    SortByName(SeenValues(entities, <<>>), <<>>)

-----------------------------------------------------------------------------
(* The engine: frames, module state and results *)

\* The identities of the footnote arrays that can be alive at one time: the
\* one a held result refers to and the one the engine is filling.
ArrIds == {1, 2}

\* One active call.  fn: the function; path: its node argument; pc: where
\* it stands; i: its loop index; acc: its local string (result / children);
\* list: the paragraphs transformBackMatter loops over; items: its items.
Frame(fn, path, pc) ==
    [fn |-> fn, path |-> path, pc |-> pc, i |-> 1, acc |-> <<>>,
     list |-> <<>>, items |-> <<>>]

NoDoc == E("#none", <<>>, <<>>)

\* No result object: before the first call has returned.
NoResult ==
    [valid |-> FALSE, summary |-> <<>>, body |-> NullHtml, back |-> NullHtml,
     footnotes |-> 0,
     registers |-> [persons |-> <<>>, places |-> <<>>,
                    organizations |-> <<>>, terms |-> <<>>]]

\* The object literal of transform(); footnotes 0 is its own empty array.
\* (metadata and heading are read-only extractions and are not modelled.)
NewResult == [NoResult EXCEPT !.valid = TRUE]

Top == stack[Len(stack)]

Popped == SubSeq(stack, 1, Len(stack) - 1)

Running(fn, pc) == stack # <<>> /\ Top.fn = fn /\ Top.pc = pc

\* The node of the innermost call; its path is never dereferenced when null.
TopNode == IF Top.path = Null THEN NoDoc ELSE NodeAt(doc, Top.path)

\* A faulty variant: the counter runs on from the call before.
KeepCounter(old) == old

\* footnoteCounter = 0
ResetCounter(old) == 0

\* A faulty variant: a collection that is not emptied at entry.
KeepAccumulator(old) == old

\* persons = []; places = []; organizations = []; terms = []
ResetAccumulator(old) == <<>>

\* footnotes = []: a new array object, different from the one a result
\* already handed out refers to.
FreshArray == IF held.valid /\ held.footnotes = 1 THEN 2 ELSE 1

\* A faulty variant: footnotes.length = 0, which empties the array a result
\* may still refer to.
ClearInPlace(h, old, new) == [a \in ArrIds |-> IF a \in {old, new} THEN <<>> ELSE h[a]]

\* The footnote arrays after footnotes = []: the variable is bound to a new
\* empty array; the old one keeps its elements.
BindNewArray(h, old, new) == [h EXCEPT ![new] = <<>>]

\* An exception leaves transform(): no frame is left, no result is returned.
Throw ==
    /\ threw' = TRUE
    /\ stack' = <<>>
    /\ ret' = <<>>
    /\ result' = NoResult
    /\ UNCHANGED << doc, normalizedMode, footnoteCounter, footnotes, heap,
                    persons, places, organizations, terms, held, fnSrc,
                    session, prevDoc >>

-----------------------------------------------------------------------------
(* The documents the environment hands to transform() *)

\* Nesting depth of the generated body content.
MaxDepth == 2

\* Number of named entities in a generated paragraph.
MaxEnts == 2

Place(value) == << << "place", value >> >>

Margin == << "m", "a", "r", "g", "i", "n" >>

TextA == T(<< "a" >>)

TextB == T(<< "b" >>)

\* The ways content x is nested in an element that matters to the walk.
WrapperNames ==
    {"note", "margin", "sic", "corr", "choice", "lem", "app"}

WrapIn(w, x) ==
    CASE w = "note"      -> E("note", <<>>, x)
      [] w = "margin"    -> E("note", Place(Margin), x)
      [] w = "sic"       -> E("choice", <<>>,
                              << E("sic", <<>>, x), E("corr", <<>>, << TextB >>) >>)
      [] w = "corr"      -> E("choice", <<>>,
                              << E("sic", <<>>, << TextA >>), E("corr", <<>>, x) >>)
      [] w = "choice"    -> E("choice", <<>>, x)
      [] w = "lem"       -> E("app", <<>>,
                              << E("lem", <<>>, x), E("rdg", <<>>, << TextB >>) >>)
      [] w = "app"       -> E("app", <<>>, x)

Leaves == { TextA, E("handShift", <<>>, <<>>) }

\* Content nested at most depth wrappers deep.
RECURSIVE Chain(_)
Chain(depth) ==
    IF depth = 0 THEN Leaves
    ELSE Leaves
         \cup { WrapIn(w, <<>>) : w \in WrapperNames }
         \cup { WrapIn(w[1], << w[2] >>) : w \in WrapperNames \X Chain(depth - 1) }

\* A TEI document: an optional header with a summary, a text with an
\* optional body and an optional back.
Header(summaryKids) ==
    << E("teiHeader", <<>>, << E("summary", <<>>, summaryKids) >>) >>

Body(kids) == << E("body", <<>>, kids) >>

Back(kids) == << E("back", <<>>, kids) >>

Tei(header, body, back) ==
    E("TEI", <<>>, header \o << E("text", <<>>, body \o back) >>)

Para(kids) == E("p", <<>>, kids)

PlainNote == E("note", <<>>, << TextB >>)

\* Generated content followed by a plain note.
NestingDocs ==
    { Tei(<<>>, Body(<< Para(<< x, PlainNote >>) >>), <<>>) :
        x \in Chain(MaxDepth) }

\* Values of note/@place: the three marginal ones, another one, an empty one.
PlaceValues ==
    { Margin, << "l", "e", "f", "t" >>, << "r", "i", "g", "h", "t" >>,
      << "f", "o", "o", "t" >>, <<>> }

PlaceDocs ==
    { Tei(<<>>, Body(<< Para(<< E("note", Place(v), << TextA >>), PlainNote >>) >>), <<>>) :
        v \in PlaceValues }

\* An app with a lem and no rdg.
AppDocs ==
    { Tei(<<>>, Body(<< Para(<< E("app", <<>>, << E("lem", <<>>, << x >>) >>) >>) >>), <<>>) :
        x \in Leaves \cup { PlainNote } }

Named(tag, name, ref) ==
    E(tag, IF ref = <<>> THEN <<>> ELSE << << "ref", ref >> >>, << T(name) >>)

RefR == << "r" >>

EntityElements ==
    { Named("persName", << "b" >>, <<>>),
      Named("persName", << "a" >>, <<>>),
      Named("persName", << " ", "b" >>, <<>>),
      Named("persName", << "A" >>, RefR),
      Named("persName", << "ä" >>, RefR),
      Named("persName", << "ä" >>, <<>>),
      Named("placeName", << "z" >>, <<>>),
      Named("origPlace", << "a", "b" >>, <<>>),
      Named("orgName", << "A" >>, <<>>),
      Named("term", << "a" >>, <<>>) }

RECURSIVE SeqsUpTo(_, _)
SeqsUpTo(set, n) ==
    IF n = 0 THEN { <<>> }
    ELSE SeqsUpTo(set, n - 1)
         \cup { Append(q[1], q[2]) : q \in (SeqsUpTo(set, n - 1) \X set) }

\* Paragraphs of named entities, preceded by one fixed entity.
EntityDocs ==
    { Tei(<<>>, Body(<< Para(<< Named("persName", << "b" >>, <<>>) >> \o es) >>), <<>>) :
        es \in SeqsUpTo(EntityElements, MaxEnts) }

\* Documents with every part the engine looks for.
SessionDocs ==
    { Tei(Header(<< Named("persName", << "A" >>, <<>>), PlainNote,
                    Named("term", << "z" >>, <<>>) >>),
          Body(<< Para(<< PlainNote, Named("persName", << "b" >>, <<>>),
                          E("handShift", << << "new", << "B" >> >> >>, <<>>),
                          WrapIn("sic", << TextA >>) >>) >>),
          Back(<< E("div", <<>>, << Para(<< TextA >>), PlainNote >>) >>)),
      Tei(<<>>,
          Body(<< Para(<< Named("persName", << "a" >>, <<>>),
                          WrapIn("lem", << TextA >>),
                          WrapIn("app", << TextA >>),
                          E("note", Place(Margin), << PlainNote >>) >>) >>),
          Back(<< Para(<< TextB >>) >>)),
      Tei(Header(<< T(<< " " >>) >>),
          <<>>,
          Back(<< E("div", <<>>, << E("div", <<>>, << Para(<< PlainNote >>) >>) >>) >>)),
      Tei(<<>>,
          Body(<< Para(<< Named("placeName", << "z" >>, <<>>),
                          Named("orgName", << "A" >>, <<>>),
                          Named("term", << "a" >>, <<>>),
                          Named("persName", << "ä" >>, RefR),
                          Named("persName", << "a" >>, RefR),
                          E("lb", << << "break", << "n", "o" >> >> >>, <<>>) >>) >>),
          <<>>) }

\* Values of lb/@break: none, "no", another one, an empty one.
BreakValues ==
    { <<>>,
      << << "break", << "n", "o" >> >> >>,
      << << "break", << "y", "e", "s" >> >> >>,
      << << "break", <<>> >> >> }

\* A line break between two texts: in a paragraph of the body, inside each
\* wrapper, and in the back matter.
LbDocs ==
    LET broken(b) == << TextA, E("lb", b, <<>>), TextB >>
    IN  { Tei(<<>>, Body(<< Para(broken(b)) >>), <<>>) : b \in BreakValues }
        \cup { Tei(<<>>, Body(<< Para(<< WrapIn(w, broken(b)) >>) >>), <<>>) :
                  w \in WrapperNames, b \in BreakValues }
        \cup { Tei(<<>>, Body(<< Para(<< TextA >>) >>),
                    Back(<< E("div", <<>>, << Para(broken(b)) >>) >>)) :
                  b \in BreakValues }

\* Arrangements of sic and corr in a choice: corr first, text between the
\* two, and a sic that itself holds a corr.
ChoiceDocs ==
    LET sic(x) == E("sic", <<>>, x)
        corr(x) == E("corr", <<>>, x)
        c == T(<< "c" >>)
        d == T(<< "d" >>)
    IN  { Tei(<<>>, Body(<< Para(<< E("choice", <<>>, kids) >>) >>), <<>>) :
            kids \in { << corr(<< d >>), sic(<< c >>) >>,
                       << sic(<< c >>), TextA, corr(<< d >>) >>,
                       << sic(<< c, corr(<< TextB >>) >>), corr(<< d >>) >> } }

\* Every document of the single-call environment.
Docs ==
    NestingDocs \cup PlaceDocs \cup AppDocs \cup EntityDocs \cup SessionDocs
        \cup LbDocs \cup ChoiceDocs

-----------------------------------------------------------------------------
(* transform(xmlDoc, normalized) *)

\* Entry of transform(): the mode is set, the counter and the collections
\* are reset, the result literal is created; extractSummary comes next.
TransformEnter(d, normalized) ==
    /\ stack = <<>>
    /\ IF session THEN d \in SessionDocs ELSE d \in Docs /\ doc = NoDoc
    /\ doc' = d
    /\ normalizedMode' = normalized
    /\ footnoteCounter' = ResetCounter(footnoteCounter)
    /\ footnotes' = FreshArray
    /\ heap' = BindNewArray(heap, footnotes, FreshArray)
    /\ persons' = ResetAccumulator(persons)
    /\ places' = ResetAccumulator(places)
    /\ organizations' = ResetAccumulator(organizations)
    /\ terms' = ResetAccumulator(terms)
    /\ fnSrc' = <<>>
    /\ result' = NewResult
    /\ stack' = << Frame("transform", <<>>, "summary") >>
    /\ ret' = <<>>
    /\ prevDoc' = doc
    /\ UNCHANGED << threw, held, session >>

\* The summary element extractSummary finds, or null.
SummaryPath(d) ==
    LET header == DocQuerySelector(d, "teiHeader")
    IN  IF header = Null THEN Null ELSE QuerySelector(d, header, "summary")

\* extractSummary up to its call of transformChildren(summary); without a
\* header or a summary it returns ''.
ExtractSummary ==
    /\ Running("transform", "summary")
    /\ IF SummaryPath(doc) = Null
       THEN /\ result' = [result EXCEPT !.summary = <<>>]
            /\ stack' = Popped \o << [Top EXCEPT !.pc = "body"] >>
       ELSE /\ result' = result
            /\ stack' = Popped \o << [Top EXCEPT !.pc = "summaryRet"],
                                    Frame("TC", SummaryPath(doc), "loop") >>
    /\ UNCHANGED << doc, ret, threw, normalizedMode, footnoteCounter, footnotes,
                    heap, persons, places, organizations, terms, held, fnSrc,
                    session, prevDoc >>

\* The value extractSummary returns once transformChildren(summary) has.
SummaryValue(d, childrenHtml) ==
    LET summaryHtml == TrimHtml(childrenHtml)
        summaryText == Trim(TextContent(NodeAt(d, SummaryPath(d))))
    IN  IF summaryHtml # <<>> THEN summaryHtml
        ELSE IF summaryText # <<>> THEN << TextTok(EscapeHTML(summaryText)) >>
        ELSE <<>>

ExtractSummaryReturn ==
    /\ Running("transform", "summaryRet")
    /\ result' = [result EXCEPT !.summary = SummaryValue(doc, ret)]
    /\ stack' = Popped \o << [Top EXCEPT !.pc = "body"] >>
    /\ UNCHANGED << doc, ret, threw, normalizedMode, footnoteCounter, footnotes,
                    heap, persons, places, organizations, terms, held, fnSrc,
                    session, prevDoc >>

\* const body = ...; if (body) result.body = transformNode(body): the call.
TransformBody ==
    /\ Running("transform", "body")
    /\ LET body == DocQuerySelector(doc, "body")
       IN  stack' = IF body = Null
                    THEN Popped \o << [Top EXCEPT !.pc = "back"] >>
                    ELSE Popped \o << [Top EXCEPT !.pc = "bodyRet"],
                                      Frame("TN", body, "enter") >>
    /\ UNCHANGED << doc, ret, threw, normalizedMode, footnoteCounter, footnotes,
                    heap, persons, places, organizations, terms, result, held,
                    fnSrc, session, prevDoc >>

TransformBodyReturn ==
    /\ Running("transform", "bodyRet")
    /\ result' = [result EXCEPT !.body = ret]
    /\ stack' = Popped \o << [Top EXCEPT !.pc = "back"] >>
    /\ UNCHANGED << doc, ret, threw, normalizedMode, footnoteCounter, footnotes,
                    heap, persons, places, organizations, terms, held, fnSrc,
                    session, prevDoc >>

\* The p elements transformBackMatter collects: for every div below back,
\* every p below that div.
BackParagraphs(d, back) ==
    LET divs == QuerySelectorAll(d, back, "div")
    IN  Concat([i \in 1..Len(divs) |-> QuerySelectorAll(d, divs[i], "p")])

\* const back = ...; if (back) result.back = transformBackMatter(back).
TransformBack ==
    /\ Running("transform", "back")
    /\ LET back == DocQuerySelector(doc, "back")
       IN  stack' = IF back = Null
                    THEN Popped \o << [Top EXCEPT !.pc = "finish"] >>
                    ELSE Popped \o << [Top EXCEPT !.pc = "backRet"],
                                      [Frame("TBM", back, "loop") EXCEPT
                                          !.list = BackParagraphs(doc, back)] >>
    /\ UNCHANGED << doc, ret, threw, normalizedMode, footnoteCounter, footnotes,
                    heap, persons, places, organizations, terms, result, held,
                    fnSrc, session, prevDoc >>

TransformBackReturn ==
    /\ Running("transform", "backRet")
    /\ result' = [result EXCEPT !.back = ret]
    /\ stack' = Popped \o << [Top EXCEPT !.pc = "finish"] >>
    /\ UNCHANGED << doc, ret, threw, normalizedMode, footnoteCounter, footnotes,
                    heap, persons, places, organizations, terms, held, fnSrc,
                    session, prevDoc >>

\* result.footnotes = footnotes; the four registers; return result.  The
\* caller receives the result and lets go of the one it held before, whose
\* footnote array is then garbage.
TransformReturn ==
    /\ Running("transform", "finish")
    /\ held' = [result EXCEPT
                  !.footnotes = footnotes,
                  !.registers = [persons |-> deduplicateEntities(persons),
                                 places |-> deduplicateEntities(places),
                                 organizations |-> deduplicateEntities(organizations),
                                 terms |-> deduplicateEntities(terms)]]
    /\ heap' = [a \in ArrIds |-> IF a = footnotes THEN heap[a] ELSE <<>>]
    /\ result' = NoResult
    /\ stack' = <<>>
    /\ ret' = <<>>
    /\ UNCHANGED << doc, threw, normalizedMode, footnoteCounter, footnotes,
                    persons, places, organizations, terms, fnSrc, session, prevDoc >>

-----------------------------------------------------------------------------
(* transformChildren(node) *)

\* for (const child of node.childNodes) result += transformNode(child):
\* the call for the next child.  Reading childNodes of null throws.
TCCall ==
    /\ Running("TC", "loop")
    /\ IF Top.path = Null THEN Throw
       ELSE /\ Top.i <= Len(TopNode.kids)
            /\ stack' = Popped \o << [Top EXCEPT !.pc = "got"],
                                    Frame("TN", Top.path \o << Top.i >>, "enter") >>
            /\ UNCHANGED << doc, ret, threw, normalizedMode, footnoteCounter,
                            footnotes, heap, persons, places, organizations,
                            terms, result, held, fnSrc, session, prevDoc >>

\* result += (the value transformNode returned)
TCAccum ==
    /\ Running("TC", "got")
    /\ stack' = Popped \o << [Top EXCEPT !.pc = "loop", !.i = @ + 1,
                                         !.acc = @ \o ret] >>
    /\ UNCHANGED << doc, ret, threw, normalizedMode, footnoteCounter, footnotes,
                    heap, persons, places, organizations, terms, result, held,
                    fnSrc, session, prevDoc >>

\* return result
TCReturn ==
    /\ Running("TC", "loop")
    /\ Top.path # Null
    /\ Top.i > Len(TopNode.kids)
    /\ ret' = Top.acc
    /\ stack' = Popped
    /\ UNCHANGED << doc, threw, normalizedMode, footnoteCounter, footnotes,
                    heap, persons, places, organizations, terms, result, held,
                    fnSrc, session, prevDoc >>

-----------------------------------------------------------------------------
(* transformNode(node) *)

\* A faulty variant: only the parent element is looked at.
IsChildOfHeader(d, path) ==
    /\ Len(path) >= 1
    /\ NodeAt(d, SubSeq(path, 1, Len(path) - 1)).tag = "teiHeader"

\* isInsideHeader: some ancestor element is a teiHeader.
isInsideHeader(d, path) ==
    \E k \in 0..(Len(path) - 1) : NodeAt(d, SubSeq(path, 1, k)).tag = "teiHeader"

\* findSibling: the first other child element of the parent with that name.
findSibling(d, path, name) ==
    IF Parent(path) = Null THEN Null
    ELSE LET parent == Parent(path)
             hits == {i \in 1..Len(NodeAt(d, parent).kids) :
                         /\ NodeAt(d, parent).kids[i].tag = name
                         /\ parent \o << i >> # path}
         IN  IF hits = {} THEN Null
             ELSE parent \o << CHOOSE i \in hits : \A j \in hits : i <= j >>

\* Text node: return escapeHTML(node.textContent).
TNText ==
    /\ Running("TN", "enter")
    /\ IsText(TopNode)
    /\ ret' = << TextTok(EscapeHTML(TopNode.text)) >>
    /\ stack' = Popped
    /\ UNCHANGED << doc, threw, normalizedMode, footnoteCounter, footnotes,
                    heap, persons, places, organizations, terms, result, held,
                    fnSrc, session, prevDoc >>

\* A faulty variant: the line break is written in both modes.
LineBreakInBothModes(node, normalized) ==
    IF Attr(node, "break") = << "n", "o" >>
    THEN << Lit("-"), Lit("<br>") >>
    ELSE << Lit("<br>") >>

\* case 'lb': nothing in normalized mode; otherwise '-<br>' when @break is
\* "no" and '<br>' in every other case.
LineBreakHtml(node, normalized) ==
    IF normalized THEN <<>>
    ELSE IF Attr(node, "break") = << "n", "o" >>
         THEN << Lit("-"), Lit("<br>") >>
         ELSE << Lit("<br>") >>

\* Element node: const children = transformChildren(node), before the
\* switch and for every element.
TNElement ==
    /\ Running("TN", "enter")
    /\ ~IsText(TopNode)
    /\ stack' = Popped \o << [Top EXCEPT !.pc = "switch"],
                            Frame("TC", Top.path, "loop") >>
    /\ UNCHANGED << doc, ret, threw, normalizedMode, footnoteCounter, footnotes,
                    heap, persons, places, organizations, terms, result, held,
                    fnSrc, session, prevDoc >>

SemanticTags == {"persName", "placeName", "origPlace", "orgName"}

\* The cases of the switch that call a helper with effects or further calls.
IsSemantic(d, path) ==
    \/ NodeAt(d, path).tag \in SemanticTags
    \/ NodeAt(d, path).tag = "term" /\ ~isInsideHeader(d, path)

IsPlainCase(d, path) ==
    /\ ~IsSemantic(d, path)
    /\ NodeAt(d, path).tag \notin {"choice", "app", "note", "handShift"}

\* The cases of the switch that return a string built from children alone.
PlainCase(d, path, children, normalized) ==
    LET node == NodeAt(d, path)
        tag == node.tag
    IN  CASE tag = "body" -> Wrap("div.body", <<>>, "", children)
          [] tag = "div"  -> Wrap("div.tei-div", <<>>, "", children)
          [] tag = "p"    -> Wrap("p.tei-p", <<>>, "", children)
          [] tag = "lb"   -> LineBreakHtml(node, normalized)
          [] tag = "term" -> children
          [] tag = "sic"  ->
                Wrap("span.tei-sic text-critical", << Lit("So im Original") >>,
                     "textcritical", children)
          [] tag = "corr" -> Wrap("span.tei-corr", <<>>, "", children)
          [] tag = "abbr" ->
                LET expansion == findSibling(d, path, "expan")
                    expanText == IF expansion = Null THEN <<>>
                                 ELSE TextContent(NodeAt(d, expansion))
                IN  Wrap("span.tei-abbr text-critical", TipText(expanText),
                         IF expanText = <<>> THEN "" ELSE "abbr", children)
          [] tag = "expan" -> <<>>
          [] tag = "orig" -> Wrap("span.tei-orig", <<>>, "", children)
          [] tag = "reg"  -> <<>>
          [] tag = "lem"  -> Wrap("span.tei-lem", <<>>, "", children)
          [] tag = "rdg"  -> <<>>
          [] OTHER        -> children

TNPlain ==
    /\ Running("TN", "switch")
    /\ IsPlainCase(doc, Top.path)
    /\ ret' = PlainCase(doc, Top.path, ret, normalizedMode)
    /\ stack' = Popped
    /\ UNCHANGED << doc, threw, normalizedMode, footnoteCounter, footnotes,
                    heap, persons, places, organizations, terms, result, held,
                    fnSrc, session, prevDoc >>

\* A faulty variant: origPlace taken for a person.
SemanticTypeOrigPlaceAsPerson(tag) ==
    CASE tag \in {"persName", "origPlace"} -> "person"
      [] tag = "placeName" -> "place"
      [] tag = "orgName" -> "organization"
      [] tag = "term" -> "term"

\* The type argument of transformSemanticElement for each case.
SemanticType(tag) ==
    CASE tag = "persName" -> "person"
      [] tag \in {"placeName", "origPlace"} -> "place"
      [] tag = "orgName" -> "organization"
      [] tag = "term" -> "term"

TypeLabel(type) ==
    CASE type = "person" -> "Person"
      [] type = "place" -> "Ort"
      [] type = "organization" -> "Organisation"
      [] type = "term" -> "Begriff"

\* const entity = { name, ref, role }
SemanticEntity(node) ==
    Entity(Trim(TextContent(node)), Attr(node, "ref"), Attr(node, "role"))

\* The span transformSemanticElement returns; s holds data-ref.
SemanticHtml(node, type, children) ==
    LET ref == Attr(node, "ref")
        role == Attr(node, "role")
        tooltip ==
            << Lit(TypeLabel(type)) >>
            \o (IF ref # <<>>
                THEN << Lit(" | "), Lit("Ref: "), TextTok(EscapeAttr(ref)) >>
                ELSE <<>>)
            \o (IF role # <<>>
                THEN << Lit(" | "), Lit("Rolle: "), TextTok(EscapeAttr(role)) >>
                ELSE <<>>)
    IN  << Tok("open", "span.semantic", 0, EscapeAttr(ref), tooltip, type) >>
        \o children \o << Close("span.semantic") >>

\* persName, placeName, origPlace, orgName, and term outside the header:
\* transformSemanticElement(node, type, children).
TNSemantic ==
    /\ Running("TN", "switch")
    /\ IsSemantic(doc, Top.path)
    /\ LET type == SemanticType(TopNode.tag)
           entity == SemanticEntity(TopNode)
       IN  /\ persons' = IF type = "person" THEN Append(persons, entity) ELSE persons
           /\ places' = IF type = "place" THEN Append(places, entity) ELSE places
           /\ organizations' = IF type = "organization"
                               THEN Append(organizations, entity)
                               ELSE organizations
           /\ terms' = IF type = "term" THEN Append(terms, entity) ELSE terms
           /\ ret' = SemanticHtml(TopNode, type, ret)
    /\ stack' = Popped
    /\ UNCHANGED << doc, threw, normalizedMode, footnoteCounter, footnotes,
                    heap, result, held, fnSrc, session, prevDoc >>

\* transformChoice: which pair is present, and the element rendered.
ChoicePlan(d, path) ==
    LET sic == QuerySelector(d, path, "sic")
        corr == QuerySelector(d, path, "corr")
        abbr == QuerySelector(d, path, "abbr")
        expan == QuerySelector(d, path, "expan")
        orig == QuerySelector(d, path, "orig")
        reg == QuerySelector(d, path, "reg")
    IN  IF sic # Null /\ corr # Null
        THEN [kind |-> "sic", show |-> sic, other |-> corr]
        ELSE IF abbr # Null /\ expan # Null
        THEN [kind |-> "abbr", show |-> abbr, other |-> expan]
        ELSE IF orig # Null /\ reg # Null
        THEN [kind |-> "orig", show |-> orig, other |-> reg]
        ELSE [kind |-> "fallback", show |-> path, other |-> Null]

\* case 'choice': transformChoice(node) up to its call of transformChildren
\* (of sic, abbr or orig, or of the node itself in the fallback).
TNChoice ==
    /\ Running("TN", "switch")
    /\ TopNode.tag = "choice"
    /\ stack' = Popped \o << [Top EXCEPT !.pc = "choiceRet"],
                            Frame("TC", ChoicePlan(doc, Top.path).show, "loop") >>
    /\ UNCHANGED << doc, ret, threw, normalizedMode, footnoteCounter, footnotes,
                    heap, persons, places, organizations, terms, result, held,
                    fnSrc, session, prevDoc >>

\* What transformChoice returns in the fallback: the rendered children.
ChoiceFallback(d, path, shown) == shown

\* What transformChoice returns once transformChildren has returned shown.
ChoiceHtml(d, path, shown) ==
    LET plan == ChoicePlan(d, path)
        otherText == Trim(TextContent(NodeAt(d, plan.other)))
    IN  CASE plan.kind = "sic" ->
                Wrap("span.text-critical",
                     << Lit("Korrektur: ") >> \o TipText(otherText),
                     "textcritical", shown)
          [] plan.kind = "abbr" ->
                Wrap("span.tei-abbr text-critical", TipText(otherText),
                     "abbr", shown)
          [] plan.kind = "orig" ->
                Wrap("span.text-critical",
                     << Lit("Normalisiert: ") >> \o TipText(otherText),
                     "textcritical", shown)
          [] OTHER -> ChoiceFallback(d, path, shown)

TNChoiceReturn ==
    /\ Running("TN", "choiceRet")
    /\ ret' = ChoiceHtml(doc, Top.path, ret)
    /\ stack' = Popped
    /\ UNCHANGED << doc, threw, normalizedMode, footnoteCounter, footnotes,
                    heap, persons, places, organizations, terms, result, held,
                    fnSrc, session, prevDoc >>

\* transformApp: the tooltip listing every rdg as 'wit: text', joined by
\* '; ' behind 'Varianten: '; empty when there is no rdg.
AppTooltip(d, path) ==
    LET rdgs == QuerySelectorAll(d, path, "rdg")
        rdgText(i) ==
            LET wit == Attr(NodeAt(d, rdgs[i]), "wit")
                text == Trim(TextContent(NodeAt(d, rdgs[i])))
            IN  (IF i > 1 THEN << Lit("; ") >> ELSE <<>>)
                \o (IF wit # <<>>
                    THEN TipText(wit) \o << Lit(": ") >> \o TipText(text)
                    ELSE TipText(text))
    IN  IF rdgs = <<>> THEN <<>>
        ELSE << Lit("Varianten: ") >> \o Concat([i \in 1..Len(rdgs) |-> rdgText(i)])

\* What transformApp returns for the rendered reading lemText.
AppHtml(d, path, lemText) ==
    IF AppTooltip(d, path) # <<>>
    THEN Wrap("span.text-critical", AppTooltip(d, path), "apparatus", lemText)
    ELSE Wrap("span.tei-app", <<>>, "", lemText)

\* A faulty variant: transformChildren(lem) without the test for lem.
AppHasLemUnchecked(d, path) == TRUE

\* lem ? transformChildren(lem) : children -- the test.
AppHasLem(d, path) == QuerySelector(d, path, "lem") # Null

\* case 'app' with a lem: transformApp up to transformChildren(lem).
TNAppLem ==
    /\ Running("TN", "switch")
    /\ TopNode.tag = "app"
    /\ AppHasLem(doc, Top.path)
    /\ stack' = Popped \o << [Top EXCEPT !.pc = "appRet"],
                            Frame("TC", QuerySelector(doc, Top.path, "lem"), "loop") >>
    /\ UNCHANGED << doc, ret, threw, normalizedMode, footnoteCounter, footnotes,
                    heap, persons, places, organizations, terms, result, held,
                    fnSrc, session, prevDoc >>

TNAppReturn ==
    /\ Running("TN", "appRet")
    /\ ret' = AppHtml(doc, Top.path, ret)
    /\ stack' = Popped
    /\ UNCHANGED << doc, threw, normalizedMode, footnoteCounter, footnotes,
                    heap, persons, places, organizations, terms, result, held,
                    fnSrc, session, prevDoc >>

\* case 'app' without a lem: the element's own children are the reading.
TNAppNoLem ==
    /\ Running("TN", "switch")
    /\ TopNode.tag = "app"
    /\ ~AppHasLem(doc, Top.path)
    /\ ret' = AppHtml(doc, Top.path, ret)
    /\ stack' = Popped
    /\ UNCHANGED << doc, threw, normalizedMode, footnoteCounter, footnotes,
                    heap, persons, places, organizations, terms, result, held,
                    fnSrc, session, prevDoc >>

\* A faulty variant: the number taken before the counter is incremented.
FootnoteEntryOffByOne(counter, content) ==
    [number |-> counter, content |-> content]

\* addFootnote(content): the entry pushed, given the counter before the call.
FootnoteEntry(counter, content) ==
    [number |-> counter + 1, content |-> content]

\* The footnote reference span; v tells whether it has a data-footnote
\* attribute, n is the number written into it.
FnRef(attr, n) == Tok("fnref", attr, n, <<>>, <<>>, "")

\* A faulty variant: only place="margin" is marginal.
IsMarginalPlaceMarginOnly(notePlace) ==
    notePlace = << "m", "a", "r", "g", "i", "n" >>

\* notePlace === 'margin' || notePlace === 'left' || notePlace === 'right'
IsMarginalPlace(notePlace) ==
    notePlace \in { << "m", "a", "r", "g", "i", "n" >>,
                    << "l", "e", "f", "t" >>,
                    << "r", "i", "g", "h", "t" >> }

\* case 'note': transformNote(node, children), with addFootnote.
TNNote ==
    /\ Running("TN", "switch")
    /\ TopNode.tag = "note"
    /\ IF IsMarginalPlace(Attr(TopNode, "place"))
       THEN /\ ret' = Wrap("span.tei-note-margin text-critical",
                           EscapeAttrHtml(ret), "note", << Lit("[*]") >>)
            /\ UNCHANGED << footnoteCounter, heap, fnSrc >>
       ELSE /\ footnoteCounter' = footnoteCounter + 1
            /\ heap' = [heap EXCEPT ![footnotes] =
                            Append(@, FootnoteEntry(footnoteCounter, ret))]
            /\ fnSrc' = Append(fnSrc, Top.path)
            /\ ret' = << FnRef("data-footnote", footnoteCounter') >>
    /\ stack' = Popped
    /\ UNCHANGED << doc, threw, normalizedMode, footnotes, persons, places,
                    organizations, terms, result, held, session, prevDoc >>

\* case 'handShift': addFootnote('Handwechsel' + (newHand ? ': ' + newHand : ''))
TNHandShift ==
    /\ Running("TN", "switch")
    /\ TopNode.tag = "handShift"
    /\ LET newHand == Attr(TopNode, "new")
           content == << Lit("Handwechsel") >>
                      \o (IF newHand # <<>>
                          THEN << Lit(": "), TextTok(newHand) >> ELSE <<>>)
       IN  heap' = [heap EXCEPT ![footnotes] =
                       Append(@, FootnoteEntry(footnoteCounter, content))]
    /\ footnoteCounter' = footnoteCounter + 1
    /\ fnSrc' = Append(fnSrc, Top.path)
    /\ ret' = << FnRef("", footnoteCounter') >>
    /\ stack' = Popped
    /\ UNCHANGED << doc, threw, normalizedMode, footnotes, persons, places,
                    organizations, terms, result, held, session, prevDoc >>

-----------------------------------------------------------------------------
(* transformBackMatter(backNode) *)

\* items.push(transformChildren(p)): the call for the next p.
BMCall ==
    /\ Running("TBM", "loop")
    /\ Top.i <= Len(Top.list)
    /\ stack' = Popped \o << [Top EXCEPT !.pc = "got"],
                            Frame("TC", Top.list[Top.i], "loop") >>
    /\ UNCHANGED << doc, ret, threw, normalizedMode, footnoteCounter, footnotes,
                    heap, persons, places, organizations, terms, result, held,
                    fnSrc, session, prevDoc >>

BMAccum ==
    /\ Running("TBM", "got")
    /\ stack' = Popped \o << [Top EXCEPT !.pc = "loop", !.i = @ + 1,
                                         !.items = Append(@, ret)] >>
    /\ UNCHANGED << doc, ret, threw, normalizedMode, footnoteCounter, footnotes,
                    heap, persons, places, organizations, terms, result, held,
                    fnSrc, session, prevDoc >>

\* '<h3>Kommentar</h3>' followed by one <p> per item.
BackHtml(items) ==
    << Lit("<h3>Kommentar</h3>") >>
    \o Concat([i \in 1..Len(items) |-> Wrap("p", <<>>, "", items[i])])

\* One or more items: each is rendered as a paragraph.
BMReturn ==
    /\ Running("TBM", "loop")
    /\ Top.i > Len(Top.list)
    /\ Len(Top.items) >= 1
    /\ ret' = BackHtml(Top.items)
    /\ stack' = Popped
    /\ UNCHANGED << doc, threw, normalizedMode, footnoteCounter, footnotes,
                    heap, persons, places, organizations, terms, result, held,
                    fnSrc, session, prevDoc >>

\* No item: html += transformChildren(backNode), the call.
BMFallback ==
    /\ Running("TBM", "loop")
    /\ Top.i > Len(Top.list)
    /\ Len(Top.items) = 0
    /\ stack' = Popped \o << [Top EXCEPT !.pc = "fallbackRet"],
                            Frame("TC", Top.path, "loop") >>
    /\ UNCHANGED << doc, ret, threw, normalizedMode, footnoteCounter, footnotes,
                    heap, persons, places, organizations, terms, result, held,
                    fnSrc, session, prevDoc >>

BMFallbackReturn ==
    /\ Running("TBM", "fallbackRet")
    /\ ret' = << Lit("<h3>Kommentar</h3>") >> \o ret
    /\ stack' = Popped
    /\ UNCHANGED << doc, threw, normalizedMode, footnoteCounter, footnotes,
                    heap, persons, places, organizations, terms, result, held,
                    fnSrc, session, prevDoc >>

-----------------------------------------------------------------------------
(* The engine's specifications *)

InitEngine ==
    /\ doc = NoDoc
    /\ stack = <<>>
    /\ ret = <<>>
    /\ threw = FALSE
    /\ normalizedMode = FALSE
    /\ footnoteCounter = 0
    /\ footnotes = 1
    /\ heap = [a \in ArrIds |-> <<>>]
    /\ persons = <<>>
    /\ places = <<>>
    /\ organizations = <<>>
    /\ terms = <<>>
    /\ result = NoResult
    /\ held = NoResult
    /\ fnSrc = <<>>
    /\ prevDoc = NoDoc

\* The page as index.html delivers it: the dropzone is shown, the preview
\* and the error dialog are hidden, nothing is rendered.
NoPage ==
    [header |-> <<>>, metadata |-> <<>>, body |-> <<>>, back |-> <<>>,
     regest |-> <<>>, registers |-> <<>>, view |-> "dropzone",
     errorShown |-> FALSE, errorMessage |-> ""]

\* The element no tooltip is shown for, and the timer handle no timer has.
NoTarget == "null"

NoTimer == 0

\* The tooltip widget after init(): #tooltip without the class visible, no
\* timer, no target, nothing pending; the pointer on the page background.
InitialTooltips ==
    [visible |-> FALSE, text |-> "", type |-> "", hideTimeout |-> NoTimer,
     currentTarget |-> NoTarget, timers |-> {}, framePending |-> FALSE,
     nextId |-> 1]

AppOff ==
    /\ page = NoPage
    /\ loads = <<>>
    /\ tooltips = InitialTooltips
    /\ pointer = "body"

FunOff ==
    /\ fIn = <<>>
    /\ fOut = <<>>
    /\ fOut2 = <<>>
    /\ fPc = "off"

\* One engine instance, called again and again.
Init == InitEngine /\ session = TRUE /\ FunOff /\ AppOff

\* One engine instance, called once.
InitWalk == InitEngine /\ session = FALSE /\ FunOff /\ AppOff

\* One step inside a call of transform().
EngineStep ==
    \/ ExtractSummary
    \/ ExtractSummaryReturn
    \/ TransformBody
    \/ TransformBodyReturn
    \/ TransformBack
    \/ TransformBackReturn
    \/ TransformReturn
    \/ TCCall
    \/ TCAccum
    \/ TCReturn
    \/ TNText
    \/ TNElement
    \/ TNPlain
    \/ TNSemantic
    \/ TNChoice
    \/ TNChoiceReturn
    \/ TNAppLem
    \/ TNAppReturn
    \/ TNAppNoLem
    \/ TNNote
    \/ TNHandShift
    \/ BMCall
    \/ BMAccum
    \/ BMReturn
    \/ BMFallback
    \/ BMFallbackReturn

Next ==
    \/ /\ stack = <<>>
       /\ \E d \in (IF session THEN SessionDocs ELSE Docs), normalized \in BOOLEAN :
            TransformEnter(d, normalized)
       /\ UNCHANGED << funVars, appVars >>
    \/ EngineStep /\ UNCHANGED << funVars, appVars >>

Spec == Init /\ [][Next]_vars

SpecWalk == InitWalk /\ [][Next]_vars

-----------------------------------------------------------------------------
(* deduplicateEntities, applied to arbitrary entries *)

\* Length of the entry sequences handed to deduplicateEntities.
MaxEntries == 3

EntryNames == { << "a" >>, << "A" >>, << "ä" >>, << "b" >> }

EntryRefs == { <<>>, << "r" >>, << "a" >> }

EntryPool == { Entity(e[1], e[2], <<>>) : e \in EntryNames \X EntryRefs }

DedupeInputs == SeqsUpTo(EntryPool, MaxEntries)

InitDedupe ==
    /\ InitEngine
    /\ session = FALSE
    /\ AppOff
    /\ fIn \in DedupeInputs
    /\ fOut = <<>>
    /\ fOut2 = <<>>
    /\ fPc = "dedupe"

\* deduplicateEntities(entities)
DedupeCall ==
    /\ fPc = "dedupe"
    /\ fOut' = deduplicateEntities(fIn)
    /\ fPc' = "deduped"
    /\ UNCHANGED << fIn, fOut2 >>

\* deduplicateEntities applied to its own output
DedupeAgain ==
    /\ fPc = "deduped"
    /\ fOut2' = deduplicateEntities(fOut)
    /\ fPc' = "done"
    /\ UNCHANGED << fIn, fOut >>

NextDedupe ==
    \/ DedupeCall /\ UNCHANGED << engineVars, appVars >>
    \/ DedupeAgain /\ UNCHANGED << engineVars, appVars >>

SpecDedupe == InitDedupe /\ [][NextDedupe]_vars

-----------------------------------------------------------------------------
(* formatDate *)

\* Length of the generated date strings.
MaxLen == 4

Digits == {"0", "1", "2", "3", "4", "5", "6", "7", "8", "9"}

DigitValue(c) ==
    CASE c = "0" -> 0 [] c = "1" -> 1 [] c = "2" -> 2 [] c = "3" -> 3
      [] c = "4" -> 4 [] c = "5" -> 5 [] c = "6" -> 6 [] c = "7" -> 7
      [] c = "8" -> 8 [] c = "9" -> 9

DigitChar(n) ==
    CASE n = 0 -> "0" [] n = 1 -> "1" [] n = 2 -> "2" [] n = 3 -> "3"
      [] n = 4 -> "4" [] n = 5 -> "5" [] n = 6 -> "6" [] n = 7 -> "7"
      [] n = 8 -> "8" [] n = 9 -> "9"

\* isoDate.split('-')
RECURSIVE Split(_, _)
Split(s, sep) ==
    IF \E i \in 1..Len(s) : s[i] = sep
    THEN LET k == CHOOSE i \in 1..Len(s) :
                     s[i] = sep /\ \A j \in 1..(i - 1) : s[j] # sep
         IN  << SubSeq(s, 1, k - 1) >> \o Split(SubSeq(s, k + 1, Len(s)), sep)
    ELSE << s >>

\* The longest prefix of digits.
RECURSIVE DigitPrefix(_)
DigitPrefix(s) ==
    IF s # <<>> /\ Head(s) \in Digits
    THEN << Head(s) >> \o DigitPrefix(Tail(s))
    ELSE <<>>

RECURSIVE DigitsValue(_)
DigitsValue(ds) ==
    IF ds = <<>> THEN 0
    ELSE DigitsValue(SubSeq(ds, 1, Len(ds) - 1)) * 10 + DigitValue(ds[Len(ds)])

\* parseInt(s, 10): leading white space is skipped, the digits in front are
\* the value, and there is no value (NaN) without one.
ParseInt(s) ==
    LET ds == DigitPrefix(TrimStart(s))
    IN  IF ds = <<>> THEN [nan |-> TRUE, val |-> 0]
        ELSE [nan |-> FALSE, val |-> DigitsValue(ds)]

\* A number in a template literal.
RECURSIVE NatToString(_)
NatToString(n) ==
    IF n < 10 THEN << DigitChar(n) >>
    ELSE NatToString(n \div 10) \o << DigitChar(n % 10) >>

NumberToString(x) == IF x.nan THEN << "N", "a", "N" >> ELSE NatToString(x.val)

\* const months = [...]
MonthNames ==
    << << "J", "a", "n", "u", "a", "r" >>,
       << "F", "e", "b", "r", "u", "a", "r" >>,
       << "M", "ä", "r", "z" >>,
       << "A", "p", "r", "i", "l" >>,
       << "M", "a", "i" >>,
       << "J", "u", "n", "i" >>,
       << "J", "u", "l", "i" >>,
       << "A", "u", "g", "u", "s", "t" >>,
       << "S", "e", "p", "t", "e", "m", "b", "e", "r" >>,
       << "O", "k", "t", "o", "b", "e", "r" >>,
       << "N", "o", "v", "e", "m", "b", "e", "r" >>,
       << "D", "e", "z", "e", "m", "b", "e", "r" >> >>

\* months[parseInt(part, 10) - 1] in a template literal: 'undefined' when
\* the index is NaN or outside the table.
MonthToString(part) ==
    LET m == ParseInt(part)
    IN  IF ~m.nan /\ m.val \in 1..Len(MonthNames) THEN MonthNames[m.val]
        ELSE << "u", "n", "d", "e", "f", "i", "n", "e", "d" >>

formatDate(isoDate) ==
    LET parts == Split(isoDate, "-")
    IN  IF isoDate = <<>> THEN <<>>
        ELSE IF Len(parts) = 3
        THEN NumberToString(ParseInt(parts[3])) \o << ".", " " >>
             \o MonthToString(parts[2]) \o << " " >> \o parts[1]
        ELSE IF Len(parts) = 2
        THEN MonthToString(parts[2]) \o << " " >> \o parts[1]
        ELSE isoDate

DateAlphabet == {"1", "2", "-", "x"}

\* The dates the specification names, and others of their forms.
NamedDates ==
    { << "1", "4", "2", "3", "-", "0", "3", "-", "1", "5" >>,
      << "1", "4", "2", "3", "-", "0", "3" >>,
      << "n", "o", "t", "-", "a", "-", "d", "a", "t", "e" >>,
      << "1", "9", "9", "9", "-", "1", "2", "-", "3", "1" >>,
      << "0", "8", "5", "3", "-", "0", "1", "-", "0", "1" >>,
      << "1", "9", "9", "9", "-", "1", "0" >>,
      << "1", "4", "2", "3" >> }

DateInputs == SeqsUpTo(DateAlphabet, MaxLen) \cup NamedDates

InitDate ==
    /\ InitEngine
    /\ session = FALSE
    /\ AppOff
    /\ fIn \in DateInputs
    /\ fOut = <<>>
    /\ fOut2 = <<>>
    /\ fPc = "formatDate"

FormatDateCall ==
    /\ fPc = "formatDate"
    /\ fOut' = formatDate(fIn)
    /\ fPc' = "formatted"
    /\ UNCHANGED << fIn, fOut2 >>

NextDate == FormatDateCall /\ UNCHANGED << engineVars, appVars >>

SpecDate == InitDate /\ [][NextDate]_vars

-----------------------------------------------------------------------------
(* Properties of deduplicateEntities *)

\* The key of an entry as the specification defines it: ref if it is not
\* empty, else name.
KeyOfEntry(e) == IF Len(e.ref) > 0 THEN e.ref ELSE e.name

\* C5: for every input sequence, deduplicateEntities returns no two entries
\* with the same key (ref if non-empty, else name); every output key is the
\* key of an input entry; and the entry kept for a key is the first input
\* entry with that key, field for field.
C5_DedupeFirstOfEachKey ==
    fPc \in {"deduped", "done"} =>
        /\ \A i, j \in 1..Len(fOut) :
              KeyOfEntry(fOut[i]) = KeyOfEntry(fOut[j]) => i = j
        /\ \A i \in 1..Len(fOut) :
              \E k \in 1..Len(fIn) : KeyOfEntry(fIn[k]) = KeyOfEntry(fOut[i])
        /\ \A i \in 1..Len(fOut) :
              \E k \in 1..Len(fIn) :
                  /\ fOut[i] = fIn[k]
                  /\ \A m \in 1..(k - 1) : KeyOfEntry(fIn[m]) # KeyOfEntry(fIn[k])

\* An input in which a later entry shares its ref with an earlier one of
\* another name, and a name is shared by entries of different refs.
C5_Witness ==
    /\ fPc = "deduped"
    /\ Len(fIn) = 3
    /\ Len(fOut) = 2
    /\ fIn[1].ref # <<>>
    /\ fIn[2].ref = fIn[1].ref
    /\ fIn[2].name # fIn[1].name
    /\ fIn[3].name = fIn[2].name
    /\ fIn[3].ref # fIn[2].ref

\* C6: deduplicateEntities applied to its own output returns the same
\* sequence, entry for entry and in the same order.
C6_DedupeIdempotent == fPc = "done" => fOut2 = fOut

\* The second application has run on an output that the first one had to
\* reorder, and that holds two entries of equal name.
C6_Witness ==
    /\ fPc = "done"
    /\ \E i, j \in 1..Len(fOut) :
          /\ i < j
          /\ fOut[i].name = fOut[j].name
          /\ fOut[i].ref # fOut[j].ref
    /\ fOut[1] # fIn[1]

-----------------------------------------------------------------------------
(* Properties of formatDate *)

IsDigits(s) == \A i \in 1..Len(s) : s[i] \in Digits

\* An input of the form YYYY-MM-DD with a month of the calendar.
IsYearMonthDay(s) ==
    /\ Len(s) = 10
    /\ s[5] = "-"
    /\ s[8] = "-"
    /\ IsDigits(SubSeq(s, 1, 4) \o SubSeq(s, 6, 7) \o SubSeq(s, 9, 10))
    /\ DigitsValue(SubSeq(s, 6, 7)) \in 1..12
    /\ DigitsValue(SubSeq(s, 9, 10)) \in 1..31

\* An input of the form YYYY-MM with a month of the calendar.
IsYearMonth(s) ==
    /\ Len(s) = 7
    /\ s[5] = "-"
    /\ IsDigits(SubSeq(s, 1, 4) \o SubSeq(s, 6, 7))
    /\ DigitsValue(SubSeq(s, 6, 7)) \in 1..12

\* What the specification says formatDate returns.
SpecifiedDate(s) ==
    IF IsYearMonthDay(s)
    THEN NatToString(DigitsValue(SubSeq(s, 9, 10))) \o << ".", " " >>
         \o MonthNames[DigitsValue(SubSeq(s, 6, 7))] \o << " " >> \o SubSeq(s, 1, 4)
    ELSE IF IsYearMonth(s)
    THEN MonthNames[DigitsValue(SubSeq(s, 6, 7))] \o << " " >> \o SubSeq(s, 1, 4)
    ELSE s

\* C10: formatDate returns 'D. <month name> YYYY' for an input of the form
\* YYYY-MM-DD, '<month name> YYYY' for one of the form YYYY-MM, and the
\* input unchanged for every other input, "not-a-date" among them.
C10_FormatDateAsSpecified == fPc = "formatted" => fOut = SpecifiedDate(fIn)

-----------------------------------------------------------------------------
(* Properties of the footnotes *)

\* The footnote array of the result the caller holds.
HeldFootnotes == heap[held.footnotes]

Numbered(list) == \A i \in 1..Len(list) : list[i].number = i

\* C2: at every point of one transform() call the footnote counter equals
\* the length of the footnote list and never decreases; in the returned
\* result the i-th footnote has number i.
C2_CounterIsListLength ==
    /\ [](/\ footnoteCounter = Len(heap[footnotes])
          /\ Numbered(heap[footnotes])
          /\ held.valid => Numbered(HeldFootnotes))
    /\ [][stack # <<>> => footnoteCounter' >= footnoteCounter]_vars

\* A call has returned a result with several footnotes.
C2_Witness ==
    /\ held.valid
    /\ stack = <<>>
    /\ Len(HeldFootnotes) >= 3

\* The number of footnotes an element has produced.
TimesNumbered(path) == Cardinality({i \in 1..Len(fnSrc) : fnSrc[i] = path})

\* C3: footnote numbers are assigned in document order: of two elements
\* that each produce a footnote, the one that begins earlier in the document
\* has the smaller number, also when one is nested inside the other.
C3_NumbersInDocumentOrder ==
    \A i, j \in 1..Len(fnSrc) :
        (/\ i < j
         /\ TimesNumbered(fnSrc[i]) = 1
         /\ TimesNumbered(fnSrc[j]) = 1) => Precedes(fnSrc[i], fnSrc[j])

MarginalPlaces ==
    { << "m", "a", "r", "g", "i", "n" >>, << "l", "e", "f", "t" >>,
      << "r", "i", "g", "h", "t" >> }

\* The step that handles a note whose children have been rendered.
AtNote == Running("TN", "switch") /\ TopNode.tag = "note"

\* C4: visiting a note whose @place is margin, left or right leaves the
\* counter and the footnote list as they are; visiting any other note adds
\* one to the counter, appends one footnote, and returns a reference that
\* carries the number of that footnote.
C4_NoteVisit ==
    [][AtNote =>
         IF Attr(TopNode, "place") \in MarginalPlaces
         THEN /\ footnoteCounter' = footnoteCounter
              /\ heap'[footnotes] = heap[footnotes]
         ELSE /\ footnoteCounter' = footnoteCounter + 1
              /\ Len(heap'[footnotes]) = Len(heap[footnotes]) + 1
              /\ SubSeq(heap'[footnotes], 1, Len(heap[footnotes])) = heap[footnotes]
              /\ \E k \in 1..Len(ret') :
                    /\ ret'[k].k = "fnref"
                    /\ ret'[k].n = heap'[footnotes][Len(heap'[footnotes])].number
              /\ \A k \in 1..Len(ret') :
                    ret'[k].k = "fnref" =>
                        ret'[k].n = heap'[footnotes][Len(heap'[footnotes])].number
    ]_vars

\* A marginal note has just been rendered, after a note inside it had
\* become a footnote.
C4_Witness ==
    /\ stack # <<>>
    /\ ret # <<>>
    /\ ret[1].v = "span.tei-note-margin text-critical"
    /\ Len(fnSrc) = 1
    /\ footnoteCounter = 1

-----------------------------------------------------------------------------
(* Properties of the registers and of the result *)

RegisterNames == {"persons", "places", "organizations", "terms"}

\* No entry is followed by an entry whose name sorts strictly before it.
Ascending(register) ==
    \A i, j \in 1..Len(register) :
        i < j => LocaleCompare(register[i].name, register[j].name) <= 0

\* C7: in every transform result each of the four registers is in ascending
\* order of name under the collation used for sorting.
C7_RegistersSorted ==
    held.valid => \A r \in RegisterNames : Ascending(held.registers[r])

\* A result whose persons register begins with another entry than the
\* first person collected, and holds names that differ only by case or
\* umlaut.
C7_Witness ==
    /\ held.valid
    /\ stack = <<>>
    /\ Len(held.registers.persons) >= 3
    /\ held.registers.persons[1] # persons[1]
    /\ \E i, j \in 1..Len(held.registers.persons) :
          /\ i < j
          /\ Primary(held.registers.persons[i].name[1])
                = Primary(held.registers.persons[j].name[1])

\* The step in which transformChoice returns without a recognized pair.
AtChoiceFallback ==
    /\ Running("TN", "choiceRet")
    /\ \A pair \in { << "sic", "corr" >>, << "abbr", "expan" >>, << "orig", "reg" >> } :
          \/ QuerySelector(doc, Top.path, pair[1]) = Null
          \/ QuerySelector(doc, Top.path, pair[2]) = Null

\* The step in which transformApp returns for an app without rdg.
AtAppWithoutRdg ==
    /\ stack # <<>>
    /\ Top.fn = "TN"
    /\ TopNode.tag = "app"
    /\ QuerySelectorAll(doc, Top.path, "rdg") = <<>>
    /\ stack' = Popped

-----------------------------------------------------------------------------
(* Properties of repeated calls *)

\* The entities a document holds for the register r: one for every element
\* of the register's tags, a term only outside the header.
TagsOfRegister(r) ==
    CASE r = "persons" -> {"persName"}
      [] r = "places" -> {"placeName", "origPlace"}
      [] r = "organizations" -> {"orgName"}
      [] r = "terms" -> {"term"}

EntitiesOf(d, r) ==
    LET all == Descendants(d, <<>>)
    IN  { Entity(Trim(TextContent(NodeAt(d, all[i]))),
                 Attr(NodeAt(d, all[i]), "ref"), Attr(NodeAt(d, all[i]), "role")) :
            i \in { k \in 1..Len(all) : NodeAt(d, all[k]).tag \in TagsOfRegister(r) } }

\* The elements of a document that produce a footnote when visited.
FootnoteElements(d) ==
    LET all == Descendants(d, <<>>)
    IN  { all[i] : i \in { k \in 1..Len(all) :
                             \/ NodeAt(d, all[k]).tag = "handShift"
                             \/ /\ NodeAt(d, all[k]).tag = "note"
                                /\ Attr(NodeAt(d, all[k]), "place") \notin MarginalPlaces } }

\* C1: whatever calls came before, the result of a transform() call has
\* footnotes numbered from 1, all of them produced by elements of that
\* call's document during that call, and registers that hold only entities
\* of that call's document.
C1_CallsIndependent ==
    (held.valid /\ stack = <<>>) =>
        /\ Numbered(HeldFootnotes)
        /\ Len(HeldFootnotes) = Len(fnSrc)
        /\ \A i \in 1..Len(fnSrc) : fnSrc[i] \in FootnoteElements(doc)
        /\ \A r \in RegisterNames :
              \A i \in 1..Len(held.registers[r]) :
                  held.registers[r][i] \in EntitiesOf(doc, r)

\* A second call has returned, on another document than the call before
\* it, which had footnotes and a person this document does not have.
C1_Witness ==
    /\ held.valid
    /\ stack = <<>>
    /\ prevDoc # NoDoc
    /\ prevDoc # doc
    /\ FootnoteElements(prevDoc) # {}
    /\ EntitiesOf(prevDoc, "persons") \ EntitiesOf(doc, "persons") # {}
    /\ Len(HeldFootnotes) >= 1
    /\ Len(held.registers.persons) >= 1

-----------------------------------------------------------------------------
(* formatIsoDuration *)

\* The /i flag: the letters of the duration pattern match in either case.
UpperCase(c) ==
    CASE c = "p" -> "P" [] c = "y" -> "Y" [] c = "m" -> "M" [] c = "w" -> "W"
      [] c = "d" -> "D" [] c = "t" -> "T" [] c = "h" -> "H" [] c = "s" -> "S"
      [] OTHER -> c

\* The separator of seq at index i is put between the parts: parts.join(sep).
RECURSIVE Join(_, _)
Join(parts, sep) ==
    IF parts = <<>> THEN <<>>
    ELSE IF Len(parts) = 1 THEN parts[1]
    ELSE parts[1] \o sep \o Join(Tail(parts), sep)

\* One optional group (?:(\d+)U)? tried at the front of s: the digits it
\* captures (none when it does not take part) and what is left of s.
GroupMatch(s, unit) ==
    LET ds == DigitPrefix(s)
        after == SubSeq(s, Len(ds) + 1, Len(s))
    IN  IF ds # <<>> /\ after # <<>> /\ UpperCase(after[1]) = unit
        THEN [digits |-> ds, rest |-> Tail(after)]
        ELSE [digits |-> <<>>, rest |-> s]

\* The optional groups of units, tried one after the other from the left.
RECURSIVE GroupsMatch(_, _)
GroupsMatch(s, units) ==
    IF units = <<>> THEN [captures |-> <<>>, rest |-> s]
    ELSE LET g == GroupMatch(s, Head(units))
             more == GroupsMatch(g.rest, Tail(units))
         IN  [captures |-> << g.digits >> \o more.captures, rest |-> more.rest]

\* duration.match(/^P(?:(\d+)Y)?(?:(\d+)M)?(?:(\d+)W)?(?:(\d+)D)?
\*                 (?:T(?:(\d+)H)?(?:(\d+)M)?(?:(\d+)S)?)?$/i):
\* whether it matches, and the seven captures (empty when undefined).
DurationMatch(duration) ==
    LET none == [ok |-> FALSE, captures |-> <<>>]
        date == GroupsMatch(Tail(duration), << "Y", "M", "W", "D" >>)
        time == GroupsMatch(Tail(date.rest), << "H", "M", "S" >>)
    IN  IF duration = <<>> \/ UpperCase(duration[1]) # "P" THEN none
        ELSE IF date.rest = <<>>
        THEN [ok |-> TRUE, captures |-> date.captures \o << <<>>, <<>>, <<>> >>]
        ELSE IF UpperCase(date.rest[1]) = "T" /\ time.rest = <<>>
        THEN [ok |-> TRUE, captures |-> date.captures \o time.captures]
        ELSE none

IsLineTerminator(c) == c \in {"\n", "\r"}

\* duration.match(/^R(\d*)\/(.+)$/): the count and the repeated part.
RepeatMatch(duration) ==
    LET none == [ok |-> FALSE, count |-> <<>>, repeated |-> <<>>]
        ds == DigitPrefix(Tail(duration))
        after == SubSeq(duration, Len(ds) + 2, Len(duration))
    IN  IF duration = <<>> \/ duration[1] # "R" THEN none
        ELSE IF /\ Len(after) >= 2
                /\ after[1] = "/"
                /\ \A i \in 2..Len(after) : ~IsLineTerminator(after[i])
        THEN [ok |-> TRUE, count |-> ds, repeated |-> Tail(after)]
        ELSE none

\* The unit words: `${n} Jahr${n === 1 ? '' : 'e'}` and so on.
UnitWords ==
    << [one |-> << "J", "a", "h", "r" >>, more |-> << "J", "a", "h", "r", "e" >>],
       [one |-> << "M", "o", "n", "a", "t" >>, more |-> << "M", "o", "n", "a", "t", "e" >>],
       [one |-> << "W", "o", "c", "h", "e" >>, more |-> << "W", "o", "c", "h", "e", "n" >>],
       [one |-> << "T", "a", "g" >>, more |-> << "T", "a", "g", "e" >>],
       [one |-> << "S", "t", "u", "n", "d", "e" >>, more |-> << "S", "t", "u", "n", "d", "e", "n" >>],
       [one |-> << "M", "i", "n", "u", "t", "e" >>, more |-> << "M", "i", "n", "u", "t", "e", "n" >>],
       [one |-> << "S", "e", "k", "u", "n", "d", "e" >>, more |-> << "S", "e", "k", "u", "n", "d", "e", "n" >>] >>

SingularAlways(n, k) == NatToString(n) \o << " " >> \o UnitWords[k].one

\* One part of the listing: the value and its unit word.
UnitPart(n, k) ==
    NatToString(n) \o << " " >>
        \o (IF n = 1 THEN UnitWords[k].one ELSE UnitWords[k].more)

\* parseInt(match[k] || '0', 10) for each capture, then the parts of the
\* values that are not 0, joined by ' '; the duration itself without parts.
DurationText(duration, captures) ==
    LET value(k) == IF captures[k] = <<>> THEN 0 ELSE DigitsValue(captures[k])
        present == SelectSeq(<< 1, 2, 3, 4, 5, 6, 7 >>, LAMBDA k : value(k) # 0)
        parts == [i \in 1..Len(present) |-> UnitPart(value(present[i]), present[i])]
    IN  IF parts = <<>> THEN duration ELSE Join(parts, << " " >>)

RECURSIVE formatIsoDuration(_)
formatIsoDuration(duration) ==
    LET repeat == RepeatMatch(duration)
        match == DurationMatch(duration)
    IN  IF duration = <<>> THEN <<>>
        ELSE IF repeat.ok
        THEN (IF repeat.count # <<>> THEN repeat.count \o << "×", " " >> ELSE <<>>)
             \o << "w", "i", "e", "d", "e", "r", "h", "o", "l", "t", " ", "(" >>
             \o formatIsoDuration(repeat.repeated) \o << ")" >>
        ELSE IF ~match.ok THEN duration
        ELSE DurationText(duration, match.captures)

\* The values a component of a generated duration takes; none when absent.
DurationValues == { <<>>, << "0" >>, << "1" >>, << "2" >> }

UnitLetters == << "Y", "M", "W", "D", "H", "M", "S" >>

\* The duration with the component values c; t writes the T also when no
\* time component follows it.
DurationString(c, t) ==
    LET comp(k) == IF c[k] = <<>> THEN <<>> ELSE c[k] \o << UnitLetters[k] >>
        date == comp(1) \o comp(2) \o comp(3) \o comp(4)
        time == comp(5) \o comp(6) \o comp(7)
    IN  << "P" >> \o date \o (IF t \/ time # <<>> THEN << "T" >> ELSE <<>>) \o time

LowerCase(c) ==
    CASE c = "P" -> "p" [] c = "Y" -> "y" [] c = "M" -> "m" [] c = "W" -> "w"
      [] c = "D" -> "d" [] c = "T" -> "t" [] c = "H" -> "h" [] c = "S" -> "s"
      [] OTHER -> c

ComponentDurations ==
    { DurationString(c, t) : c \in [1..7 -> DurationValues], t \in BOOLEAN }

LowerCaseDurations ==
    { [i \in 1..Len(d) |-> LowerCase(d[i])] :
        d \in { DurationString(c, FALSE) : c \in [1..7 -> { <<>>, << "1" >> }] } }

DurationAlphabet == {"P", "T", "1", "M", "p", "R", "/", "x"}

NamedDurations ==
    { << "P", "1", "Y", "2", "M" >>,
      << "R", "3", "/", "P", "1", "D" >>,
      << "R", "/", "P", "1", "D" >>,
      << "R", "0", "3", "/", "P", "T", "1", "M" >>,
      << "R", "R", "/", "P", "1", "D" >>,
      << "R", "2", "/", "R", "/", "P", "2", "W" >>,
      << "P", "0", "D" >>,
      << "p", "1", "y", "2", "m" >>,
      << "1", "Y" >>,
      << "P", "1", ",", "5", "Y" >>,
      << "P", "1", "Y", "\n" >>,
      << "R", "1", "/", "P", "1", "D", "\n" >>,
      << "P", "1", "0", "Y" >>,
      << "P", "0", "1", "M" >>,
      << "P", "T", "3", "6", "H" >>,
      << "P", "1", "Y", "2", "M", "3", "W", "4", "D", "T", "5", "H", "6", "M", "7", "S" >> }

DurationInputs ==
    ComponentDurations \cup LowerCaseDurations \cup NamedDurations
        \cup SeqsUpTo(DurationAlphabet, MaxLen)

InitDuration ==
    /\ InitEngine
    /\ session = FALSE
    /\ AppOff
    /\ fIn \in DurationInputs
    /\ fOut = <<>>
    /\ fOut2 = <<>>
    /\ fPc = "formatIsoDuration"

FormatIsoDurationCall ==
    /\ fPc = "formatIsoDuration"
    /\ fOut' = formatIsoDuration(fIn)
    /\ fPc' = "formatted"
    /\ UNCHANGED << fIn, fOut2 >>

NextDuration == FormatIsoDurationCall /\ UNCHANGED << engineVars, appVars >>

SpecDuration == InitDuration /\ [][NextDuration]_vars

-----------------------------------------------------------------------------
(* Properties of formatIsoDuration *)

\* s read as components nU, each some digits and one letter: the sequence
\* of components, or a single failure mark when s is not made of them.
RECURSIVE ComponentsOf(_)
ComponentsOf(s) ==
    IF s = <<>> THEN <<>>
    ELSE LET n == Len(DigitPrefix(s))
         IN  IF n = 0 \/ n = Len(s) THEN << [digits |-> <<>>, letter |-> "?"] >>
             ELSE << [digits |-> SubSeq(s, 1, n), letter |-> s[n + 1]] >>
                  \o ComponentsOf(SubSeq(s, n + 2, Len(s)))

\* The components are units of order, each at most once and in its order.
InUnitOrder(components, order) ==
    /\ \A i \in 1..Len(components) :
          \E k \in 1..Len(order) : components[i].letter = order[k]
    /\ \A i, j \in 1..Len(components) :
          i < j => \E k, m \in 1..Len(order) :
                      /\ k < m
                      /\ components[i].letter = order[k]
                      /\ components[j].letter = order[m]

\* The parts of a duration: what stands between P and the first T, and
\* what follows that T.
DatePartOf(s) ==
    LET body == Tail(s)
    IN  IF \E i \in 1..Len(body) : body[i] = "T"
        THEN SubSeq(body, 1, (CHOOSE i \in 1..Len(body) :
                                 body[i] = "T" /\ \A j \in 1..(i - 1) : body[j] # "T") - 1)
        ELSE body

TimePartOf(s) ==
    LET body == Tail(s)
        n == Len(DatePartOf(s))
    IN  SubSeq(body, n + 2, Len(body))

\* s has the form PnYnMnWnDTnHnMnS with some subset of the components.
IsDurationForm(s) ==
    /\ s # <<>>
    /\ s[1] = "P"
    /\ InUnitOrder(ComponentsOf(DatePartOf(s)), << "Y", "M", "W", "D" >>)
    /\ InUnitOrder(ComponentsOf(TimePartOf(s)), << "H", "M", "S" >>)

\* The value of unit k (1 = years .. 7 = seconds) in a duration of the
\* form; 0 when the component is absent.
ComponentValue(s, k) ==
    LET part == IF k <= 4 THEN ComponentsOf(DatePartOf(s)) ELSE ComponentsOf(TimePartOf(s))
        at == { i \in 1..Len(part) : part[i].letter = UnitLetters[k] }
    IN  IF at = {} THEN 0 ELSE DigitsValue(part[CHOOSE i \in at : TRUE].digits)

\* The listing the specification describes: the components with a non-zero
\* value in the order of the units, singular for 1 and plural otherwise.
SpecifiedListing(s) ==
    LET present == SelectSeq(<< 1, 2, 3, 4, 5, 6, 7 >>,
                             LAMBDA k : ComponentValue(s, k) # 0)
        word(k) == IF ComponentValue(s, k) = 1 THEN UnitWords[k].one
                   ELSE UnitWords[k].more
    IN  Join([i \in 1..Len(present) |->
                 NatToString(ComponentValue(s, present[i])) \o << " " >>
                     \o word(present[i])],
             << " " >>)

\* A repeat wrapper: R, a count of digits that may be missing, '/', and
\* something behind it.
IsRepeatWrapper(s) ==
    /\ s # <<>>
    /\ s[1] = "R"
    /\ \E k \in 2..(Len(s) - 1) :
          /\ s[k] = "/"
          /\ \A i \in 2..(k - 1) : s[i] \in Digits

UpperCased(s) == [i \in 1..Len(s) |-> UpperCase(s[i])]

\* C12 as the specification states it: a duration of the form
\* PnYnMnWnDTnHnMnS is turned into the listing of its non-zero components,
\* and every input that is neither of the form nor a repeat wrapper comes
\* back unchanged.
C12_ListingOrUnchanged ==
    fPc = "formatted" =>
        IF IsDurationForm(fIn) /\ Len(fIn) > 2
        THEN fOut = SpecifiedListing(fIn)
        ELSE (~IsDurationForm(fIn) /\ ~IsRepeatWrapper(fIn)) => fOut = fIn

\* C12, amended: the form is recognized in either letter case; a duration
\* of the form with at least one non-zero component is turned into the
\* listing of its non-zero components; a duration of the form without one,
\* and every input that is neither of the form nor a repeat wrapper, comes
\* back unchanged.
C12_ListingOrUnchangedAnyCase ==
    fPc = "formatted" =>
        IF IsDurationForm(UpperCased(fIn))
        THEN fOut = IF SpecifiedListing(UpperCased(fIn)) # <<>>
                    THEN SpecifiedListing(UpperCased(fIn)) ELSE fIn
        ELSE ~IsRepeatWrapper(fIn) => fOut = fIn

\* A duration with all seven components has been formatted, with values
\* 0, 1 and 2 among them.
C12_Witness ==
    /\ fPc = "formatted"
    /\ IsDurationForm(fIn)
    /\ \A k \in 1..7 : \E i \in 1..Len(fIn) : fIn[i] = UnitLetters[k]
    /\ \E k \in 1..7 : ComponentValue(fIn, k) = 0
    /\ \E k \in 1..7 : ComponentValue(fIn, k) = 1
    /\ ComponentValue(fIn, 6) = 2
    /\ fOut # fIn

-----------------------------------------------------------------------------
(* buildDateTooltip *)

\* The date phrases, numbered in the order of the if-else chain.
DatePhrase(node, k) ==
    LET date(name) == formatDate(Attr(node, name))
    IN  CASE k = 1 -> date("when")
          [] k = 2 -> date("from") \o << " ", "-", " " >> \o date("to")
          [] k = 3 -> << "a", "b", " " >> \o date("from")
          [] k = 4 -> << "b", "i", "s", " " >> \o date("to")
          [] k = 5 -> << "z", "w", "i", "s", "c", "h", "e", "n", " " >> \o date("notBefore")
                      \o << " ", "u", "n", "d", " " >> \o date("notAfter")
          [] k = 6 -> << "n", "i", "c", "h", "t", " ", "v", "o", "r", " " >> \o date("notBefore")
          [] k = 7 -> << "n", "i", "c", "h", "t", " ", "n", "a", "c", "h", " " >> \o date("notAfter")

\* A faulty variant of the chain: from alone is tested before from and to.
DatePhraseChoiceFromFirst(node) ==
    LET has(name) == Attr(node, name) # <<>>
    IN  IF has("when") THEN 1
        ELSE IF has("from") THEN 3
        ELSE IF has("from") /\ has("to") THEN 2
        ELSE IF has("to") THEN 4
        ELSE IF has("notBefore") /\ has("notAfter") THEN 5
        ELSE IF has("notBefore") THEN 6
        ELSE IF has("notAfter") THEN 7
        ELSE 0

\* if (when) ... else if (from && to) ... else if (notAfter) ...: the
\* branch taken, 0 when none is.
DatePhraseChoice(node) ==
    LET has(name) == Attr(node, name) # <<>>
    IN  IF has("when") THEN 1
        ELSE IF has("from") /\ has("to") THEN 2
        ELSE IF has("from") THEN 3
        ELSE IF has("to") THEN 4
        ELSE IF has("notBefore") /\ has("notAfter") THEN 5
        ELSE IF has("notBefore") THEN 6
        ELSE IF has("notAfter") THEN 7
        ELSE 0

\* node.getAttribute('dur-iso') || node.getAttribute('dur') || ''
DurIso(node) ==
    IF Attr(node, "dur-iso") # <<>> THEN Attr(node, "dur-iso") ELSE Attr(node, "dur")

CalendarSegment(node) == << "K", "a", "l", "e", "n", "d", "e", "r", ":", " " >> \o Attr(node, "calendar")

TypeSegment(node) == << "T", "y", "p", ":", " " >> \o Attr(node, "type")

PeriodSegment(node) == << "P", "e", "r", "i", "o", "d", "e", ":", " " >> \o Attr(node, "period")

DurationSegment(node) == << "D", "a", "u", "e", "r", ":", " " >> \o formatIsoDuration(DurIso(node))

buildDateTooltip(node) ==
    LET k == DatePhraseChoice(node)
        parts ==
            (IF k # 0 THEN << DatePhrase(node, k) >> ELSE <<>>)
            \o (IF Attr(node, "calendar") # <<>> THEN << CalendarSegment(node) >> ELSE <<>>)
            \o (IF Attr(node, "type") # <<>> THEN << TypeSegment(node) >> ELSE <<>>)
            \o (IF Attr(node, "period") # <<>> THEN << PeriodSegment(node) >> ELSE <<>>)
            \o (IF DurIso(node) # <<>> THEN << DurationSegment(node) >> ELSE <<>>)
    IN  Join(parts, << " ", "|", " " >>)

\* The attributes a generated date element can carry, each with the value
\* it has when it is not empty.
DateAttributes ==
    << << "when", << "1", "4", "2", "3", "-", "0", "3" >> >>,
       << "from", << "2" >> >>,
       << "to", << "3" >> >>,
       << "notBefore", << "4" >> >>,
       << "notAfter", << "5" >> >>,
       << "calendar", << "j" >> >>,
       << "type", << "t" >> >>,
       << "period", << "e" >> >>,
       << "dur-iso", << "P", "2", "D" >> >>,
       << "dur", << "x" >> >> >>

\* How an attribute occurs: not at all, with an empty value, with its value.
Occurrences == {"absent", "empty", "value"}

\* The date element whose attributes occur as occ says, in the order of
\* DateAttributes; the five date attributes alone can be empty.
DateElement(occ) ==
    LET attr(i) == IF occ[i] = "absent" THEN <<>>
                   ELSE IF occ[i] = "empty" THEN << << DateAttributes[i][1], <<>> >> >>
                   ELSE << DateAttributes[i] >>
    IN  E("date", Concat([i \in 1..Len(DateAttributes) |-> attr(i)]), <<>>)

DateElements ==
    { DateElement(occ) :
        occ \in { o \in [1..Len(DateAttributes) -> Occurrences] :
                    \A i \in 6..Len(DateAttributes) : o[i] # "empty" } }

InitDateTooltip ==
    /\ InitEngine
    /\ session = FALSE
    /\ AppOff
    /\ fIn \in DateElements
    /\ fOut = <<>>
    /\ fOut2 = <<>>
    /\ fPc = "buildDateTooltip"

BuildDateTooltipCall ==
    /\ fPc = "buildDateTooltip"
    /\ fOut' = buildDateTooltip(fIn)
    /\ fPc' = "built"
    /\ UNCHANGED << fIn, fOut2 >>

NextDateTooltip == BuildDateTooltipCall /\ UNCHANGED << engineVars, appVars >>

SpecDateTooltip == InitDateTooltip /\ [][NextDateTooltip]_vars

-----------------------------------------------------------------------------
(* Properties of buildDateTooltip *)

\* The attribute is present: the element carries it with a value that is
\* not empty.
IsPresent(node, name) ==
    \E i \in 1..Len(node.attrs) :
        node.attrs[i][1] = name /\ Len(node.attrs[i][2]) > 0

\* The attributes each date phrase needs, in the order of precedence.
PhrasePrecedence ==
    << {"when"}, {"from", "to"}, {"from"}, {"to"},
       {"notBefore", "notAfter"}, {"notBefore"}, {"notAfter"} >>

ApplicablePhrases(node) ==
    { k \in 1..Len(PhrasePrecedence) :
        \A name \in PhrasePrecedence[k] : IsPresent(node, name) }

\* The segments the specification describes: the applicable phrase of
\* highest precedence, then calendar, type, period and duration, each only
\* when present.
SpecifiedSegments(node) ==
    LET ks == ApplicablePhrases(node)
        first == CHOOSE k \in ks : \A m \in ks : k <= m
    IN  (IF ks # {} THEN << DatePhrase(node, first) >> ELSE <<>>)
        \o (IF IsPresent(node, "calendar") THEN << CalendarSegment(node) >> ELSE <<>>)
        \o (IF IsPresent(node, "type") THEN << TypeSegment(node) >> ELSE <<>>)
        \o (IF IsPresent(node, "period") THEN << PeriodSegment(node) >> ELSE <<>>)
        \o (IF IsPresent(node, "dur-iso") \/ IsPresent(node, "dur")
            THEN << DurationSegment(node) >> ELSE <<>>)

\* C11: for every combination of present and absent when, from, to,
\* notBefore, notAfter, the tooltip holds exactly one date phrase when one
\* of the five is present and none otherwise, chosen by the precedence
\* when > from and to > from > to > notBefore and notAfter > notBefore >
\* notAfter; the calendar, type, period and duration segments that are
\* present follow in that order, all separated by ' | '.
C11_OnePhraseByPrecedence ==
    fPc = "built" =>
        /\ fOut = Join(SpecifiedSegments(fIn), << " ", "|", " " >>)
        /\ (\E name \in {"when", "from", "to", "notBefore", "notAfter"} :
               IsPresent(fIn, name)) <=> ApplicablePhrases(fIn) # {}

\* A tooltip has been built for an element that has from, to, notBefore
\* and notAfter, an empty when, and all four further segments.
C11_Witness ==
    /\ fPc = "built"
    /\ ~IsPresent(fIn, "when")
    /\ \E i \in 1..Len(fIn.attrs) : fIn.attrs[i][1] = "when"
    /\ \A name \in {"from", "to", "notBefore", "notAfter", "calendar", "type",
                    "period", "dur-iso"} : IsPresent(fIn, name)
    /\ fOut = << "2", " ", "-", " ", "3", " ", "|", " ", "K", "a", "l", "e", "n", "d", "e", "r", ":", " ", "j", " ", "|", " ", "T", "y", "p", ":", " ", "t", " ", "|", " ", "P", "e", "r", "i", "o", "d", "e", ":", " ", "e", " ", "|", " ", "D", "a", "u", "e", "r", ":", " ", "2", " ", "T", "a", "g", "e" >>

-----------------------------------------------------------------------------
(* getRenditionClass *)

UpperLetters == << "A", "B", "C", "D", "E", "F", "G", "H", "I", "J", "K", "L", "M", "N", "O", "P", "Q", "R", "S", "T", "U", "V", "W", "X", "Y", "Z" >>

LowerLetters == << "a", "b", "c", "d", "e", "f", "g", "h", "i", "j", "k", "l", "m", "n", "o", "p", "q", "r", "s", "t", "u", "v", "w", "x", "y", "z" >>

\* String.prototype.toLowerCase, on the letters A to Z.
ToLowerCase(text) ==
    [i \in 1..Len(text) |->
        IF \E k \in 1..Len(UpperLetters) : UpperLetters[k] = text[i]
        THEN LowerLetters[CHOOSE k \in 1..Len(UpperLetters) : UpperLetters[k] = text[i]]
        ELSE text[i]]

\* text.split(/\s+/).map(t => t.trim()).filter(Boolean): the runs of
\* characters that are not white space.
RECURSIVE WhitespaceTokens(_)
WhitespaceTokens(text) ==
    LET t == TrimStart(text)
        n == IF \E i \in 1..Len(t) : IsSpace(t[i])
             THEN (CHOOSE i \in 1..Len(t) :
                      IsSpace(t[i]) /\ \A j \in 1..(i - 1) : ~IsSpace(t[j])) - 1
             ELSE Len(t)
    IN  IF t = <<>> THEN <<>>
        ELSE << SubSeq(t, 1, n) >> \o WhitespaceTokens(SubSeq(t, n + 1, Len(t)))

StartsWith(text, prefix) ==
    Len(text) >= Len(prefix) /\ SubSeq(text, 1, Len(prefix)) = prefix

\* const rendMap = {...}: the own properties of the object literal.
RendMap ==
    << << << "s", "u", "p" >>,
          << "s", "i", "m", "p", "l", "e", "_", "s", "u", "p", "e", "r", "s", "c", "r", "i", "p", "t" >> >>,
       << << "s", "u", "p", "e", "r" >>,
          << "s", "i", "m", "p", "l", "e", "_", "s", "u", "p", "e", "r", "s", "c", "r", "i", "p", "t" >> >>,
       << << "s", "u", "p", "e", "r", "s", "c", "r", "i", "p", "t" >>,
          << "s", "i", "m", "p", "l", "e", "_", "s", "u", "p", "e", "r", "s", "c", "r", "i", "p", "t" >> >>,
       << << "s", "u", "b" >>,
          << "s", "i", "m", "p", "l", "e", "_", "s", "u", "b", "s", "c", "r", "i", "p", "t" >> >>,
       << << "s", "u", "b", "s", "c", "r", "i", "p", "t" >>,
          << "s", "i", "m", "p", "l", "e", "_", "s", "u", "b", "s", "c", "r", "i", "p", "t" >> >>,
       << << "i", "t", "a", "l", "i", "c" >>,
          << "s", "i", "m", "p", "l", "e", "_", "i", "t", "a", "l", "i", "c" >> >>,
       << << "i", "t", "a", "l", "i", "c", "s" >>,
          << "s", "i", "m", "p", "l", "e", "_", "i", "t", "a", "l", "i", "c" >> >>,
       << << "b", "o", "l", "d" >>,
          << "s", "i", "m", "p", "l", "e", "_", "b", "o", "l", "d" >> >>,
       << << "u", "n", "d", "e", "r", "l", "i", "n", "e" >>,
          << "s", "i", "m", "p", "l", "e", "_", "u", "n", "d", "e", "r", "l", "i", "n", "e" >> >>,
       << << "s", "t", "r", "i", "k", "e", "t", "h", "r", "o", "u", "g", "h" >>,
          << "s", "i", "m", "p", "l", "e", "_", "s", "t", "r", "i", "k", "e", "t", "h", "r", "o", "u", "g", "h" >> >>,
       << << "s", "m", "a", "l", "l", "c", "a", "p", "s" >>,
          << "s", "i", "m", "p", "l", "e", "_", "s", "m", "a", "l", "l", "c", "a", "p", "s" >> >>,
       << << "s", "m", "a", "l", "l", "-", "c", "a", "p", "s" >>,
          << "s", "i", "m", "p", "l", "e", "_", "s", "m", "a", "l", "l", "c", "a", "p", "s" >> >>,
       << << "a", "l", "l", "c", "a", "p", "s" >>,
          << "s", "i", "m", "p", "l", "e", "_", "a", "l", "l", "c", "a", "p", "s" >> >>,
       << << "u", "p", "p", "e", "r", "c", "a", "s", "e" >>,
          << "s", "i", "m", "p", "l", "e", "_", "a", "l", "l", "c", "a", "p", "s" >> >>,
       << << "l", "a", "r", "g", "e", "r" >>,
          << "s", "i", "m", "p", "l", "e", "_", "l", "a", "r", "g", "e", "r" >> >>,
       << << "s", "m", "a", "l", "l", "e", "r" >>,
          << "s", "i", "m", "p", "l", "e", "_", "s", "m", "a", "l", "l", "e", "r" >> >>,
       << << "l", "e", "t", "t", "e", "r", "-", "s", "p", "a", "c", "e" >>,
          << "s", "i", "m", "p", "l", "e", "_", "l", "e", "t", "t", "e", "r", "s", "p", "a", "c", "e" >> >>,
       << << "l", "e", "t", "t", "e", "r", "s", "p", "a", "c", "e" >>,
          << "s", "i", "m", "p", "l", "e", "_", "l", "e", "t", "t", "e", "r", "s", "p", "a", "c", "e" >> >>,
       << << "l", "e", "t", "t", "e", "r", "s", "p", "a", "c", "i", "n", "g" >>,
          << "s", "i", "m", "p", "l", "e", "_", "l", "e", "t", "t", "e", "r", "s", "p", "a", "c", "e" >> >>,
       << << "s", "p", "a", "c", "e", "d" >>,
          << "s", "i", "m", "p", "l", "e", "_", "l", "e", "t", "t", "e", "r", "s", "p", "a", "c", "e" >> >>,
       << << "g", "e", "s", "p", "e", "r", "r", "t" >>,
          << "s", "i", "m", "p", "l", "e", "_", "l", "e", "t", "t", "e", "r", "s", "p", "a", "c", "e" >> >>,
       << << "s", "p", "e", "r", "r", "u", "n", "g" >>,
          << "s", "i", "m", "p", "l", "e", "_", "l", "e", "t", "t", "e", "r", "s", "p", "a", "c", "e" >> >>,
       << << "c", "e", "n", "t", "e", "r" >>,
          << "s", "i", "m", "p", "l", "e", "_", "c", "e", "n", "t", "r", "e" >> >>,
       << << "c", "e", "n", "t", "r", "e" >>,
          << "s", "i", "m", "p", "l", "e", "_", "c", "e", "n", "t", "r", "e" >> >>,
       << << "r", "i", "g", "h", "t" >>,
          << "s", "i", "m", "p", "l", "e", "_", "r", "i", "g", "h", "t" >> >>,
       << << "l", "e", "f", "t" >>,
          << "s", "i", "m", "p", "l", "e", "_", "l", "e", "f", "t" >> >> >>

\* String(Object), the value of the property 'constructor' that rendMap
\* inherits from Object.prototype.
ObjectConstructorText == << "f", "u", "n", "c", "t", "i", "o", "n", " ", "O", "b", "j", "e", "c", "t", "(", ")", " ", "{", " ", "[", "n", "a", "t", "i", "v", "e", " ", "c", "o", "d", "e", "]", " ", "}" >>

\* rendMap[key]: the own property, else the property inherited from
\* Object.prototype (constructor is the only one whose name a lower-cased
\* token can spell), else undefined, written as the empty sequence.
RendMapGet(key) ==
    IF \E i \in 1..Len(RendMap) : RendMap[i][1] = key
    THEN RendMap[CHOOSE i \in 1..Len(RendMap) : RendMap[i][1] = key][2]
    ELSE IF key = << "c", "o", "n", "s", "t", "r", "u", "c", "t", "o", "r" >> THEN ObjectConstructorText
    ELSE <<>>

\* token.replace(/_/g, '-')
UnderscoresToHyphens(token) ==
    [i \in 1..Len(token) |-> IF token[i] = "_" THEN "-" ELSE token[i]]

\* normalized.replace(/-/g, '')
WithoutHyphens(token) == SelectSeq(token, LAMBDA c : c # "-")

SafeChars == { LowerLetters[i] : i \in 1..Len(LowerLetters) } \cup Digits \cup {"_", "-"}

\* text.replace(/[^a-z0-9_-]/g, '')
Sanitized(text) == SelectSeq(text, LAMBDA c : c \in SafeChars)

SimpleColon == << "s", "i", "m", "p", "l", "e", ":" >>

SimpleUnderscore == << "s", "i", "m", "p", "l", "e", "_" >>

SimpleHyphen == << "s", "i", "m", "p", "l", "e", "-" >>

\* The classes one token pushes: one class or none.
TokenClasses(token) ==
    LET normalized == UnderscoresToHyphens(token)
        compact == WithoutHyphens(normalized)
        mapped == IF RendMapGet(normalized) # <<>> THEN RendMapGet(normalized)
                  ELSE RendMapGet(compact)
    IN  IF StartsWith(token, SimpleColon)
        THEN << SimpleUnderscore \o Sanitized(SubSeq(token, 8, Len(token))) >>
        ELSE IF StartsWith(token, SimpleUnderscore) THEN << token >>
        ELSE IF StartsWith(token, SimpleHyphen)
        THEN << SimpleUnderscore \o SubSeq(token, 8, Len(token)) >>
        ELSE IF mapped # <<>> THEN << mapped >>
        ELSE <<>>

\* Array.from(new Set(classes)): the first occurrence of each class.
RECURSIVE Distinct(_, _)
Distinct(classes, kept) ==
    IF classes = <<>> THEN kept
    ELSE Distinct(Tail(classes),
                  IF \E i \in 1..Len(kept) : kept[i] = Head(classes)
                  THEN kept ELSE Append(kept, Head(classes)))

TeiHi == << "t", "e", "i", "-", "h", "i" >>

getRenditionClass(rend) ==
    LET tokens == WhitespaceTokens(ToLowerCase(rend))
        classes == Concat([i \in 1..Len(tokens) |-> TokenClasses(tokens[i])])
    IN  IF rend = <<>> THEN TeiHi
        ELSE IF classes = <<>> THEN TeiHi
        ELSE Join(Distinct(classes, <<>>), << " " >>)

MaxTokens == 2

\* rend tokens: names of the table and synonyms, other spellings of them,
\* names the table lacks, and tokens with each of the three prefixes.
RendTokens ==
    { << "b", "o", "l", "d" >>,
      << "s", "u", "p" >>,
      << "s", "u", "p", "e", "r" >>,
      << "s", "u", "p", "e", "r", "s", "c", "r", "i", "p", "t" >>,
      << "B", "O", "L", "D" >>,
      << "s", "m", "a", "l", "l", "_", "c", "a", "p", "s" >>,
      << "s", "-", "u", "-", "p" >>,
      << "i", "t", "a", "l", "i", "c" >>,
      << "f", "o", "o" >>,
      << "c", "o", "n", "s", "t", "r", "u", "c", "t", "o", "r" >>,
      << "s", "i", "m", "p", "l", "e", ":", "a", "\"", "B", "<" >>,
      << "s", "i", "m", "p", "l", "e", ":" >>,
      << "s", "i", "m", "p", "l", "e", "_", "a", "\"", "b" >>,
      << "s", "i", "m", "p", "l", "e", "_", "o", "k" >>,
      << "s", "i", "m", "p", "l", "e", "-", "x", ">" >> }

RendSeparators == { << " " >>, << " ", "\t", "\n" >> }

RendPadding == { <<>>, << " " >> }

RendInputs ==
    { pad \o Join(tokens, sep) \o pad :
        tokens \in SeqsUpTo(RendTokens, MaxTokens),
        sep \in RendSeparators, pad \in RendPadding }

InitRendition ==
    /\ InitEngine
    /\ session = FALSE
    /\ AppOff
    /\ fIn \in RendInputs
    /\ fOut = <<>>
    /\ fOut2 = <<>>
    /\ fPc = "getRenditionClass"

GetRenditionClassCall ==
    /\ fPc = "getRenditionClass"
    /\ fOut' = getRenditionClass(fIn)
    /\ fPc' = "mapped"
    /\ UNCHANGED << fIn, fOut2 >>

NextRendition == GetRenditionClassCall /\ UNCHANGED << engineVars, appVars >>

SpecRendition == InitRendition /\ [][NextRendition]_vars

-----------------------------------------------------------------------------
(* Properties of getRenditionClass *)

\* The tokens of a rend value, lower-cased.
TokensOf(rend) == WhitespaceTokens(ToLowerCase(rend))

HasPassthroughPrefix(token) ==
    \/ StartsWith(token, SimpleColon)
    \/ StartsWith(token, SimpleUnderscore)
    \/ StartsWith(token, SimpleHyphen)

\* The names of the table a token spells: as written with '_' for '-', or
\* with the hyphens left out.
TableNames(token) ==
    { i \in 1..Len(RendMap) :
        \/ RendMap[i][1] = UnderscoresToHyphens(token)
        \/ RendMap[i][1] = WithoutHyphens(UnderscoresToHyphens(token)) }

IsRecognized(token) == HasPassthroughPrefix(token) \/ TableNames(token) # {}

\* The class tokens of a result: its runs between single spaces.
RECURSIVE ClassTokens(_)
ClassTokens(text) ==
    IF \E i \in 1..Len(text) : text[i] = " "
    THEN LET i == CHOOSE k \in 1..Len(text) :
                      text[k] = " " /\ \A j \in 1..(k - 1) : text[j] # " "
         IN  << SubSeq(text, 1, i - 1) >> \o ClassTokens(SubSeq(text, i + 1, Len(text)))
    ELSE << text >>

\* C13: getRenditionClass never returns an empty result: when no token of
\* the input is recognized (the empty string and white space included) the
\* result is exactly tei-hi, and otherwise it is made of at least one class
\* token, none of them empty.
C13_NeverEmptyFallbackExact ==
    fPc = "mapped" =>
        /\ fOut # <<>>
        /\ (\A i \in 1..Len(TokensOf(fIn)) : ~IsRecognized(TokensOf(fIn)[i]))
               => fOut = TeiHi
        /\ (\E i \in 1..Len(TokensOf(fIn)) : IsRecognized(TokensOf(fIn)[i]))
               => \A k \in 1..Len(ClassTokens(fOut)) : ClassTokens(fOut)[k] # <<>>

\* The canonical class of a token that spells a name of the table.
CanonicalClass(token) ==
    LET exact == { i \in TableNames(token) : RendMap[i][1] = UnderscoresToHyphens(token) }
    IN  RendMap[CHOOSE i \in (IF exact # {} THEN exact ELSE TableNames(token)) : TRUE][2]

\* The canonical classes of the recognized tokens, each at the place of its
\* first occurrence.
ExpectedClasses(tokens) ==
    LET classAt(i) == CanonicalClass(tokens[i])
        first(i) == /\ TableNames(tokens[i]) # {}
                    /\ \A j \in 1..(i - 1) :
                           TableNames(tokens[j]) # {} => classAt(j) # classAt(i)
        RECURSIVE from(_)
        from(i) == IF i > Len(tokens) THEN <<>>
                   ELSE (IF first(i) THEN << classAt(i) >> ELSE <<>>) \o from(i + 1)
    IN  from(1)

\* C14: for a token list without prefixed tokens the result is the
\* canonical classes of the recognized tokens in the order of their first
\* occurrence, none repeated, separated by one space; tokens that are not
\* recognized contribute nothing.
C14_CanonicalClassesInOrder ==
    (/\ fPc = "mapped"
     /\ \A i \in 1..Len(TokensOf(fIn)) : ~HasPassthroughPrefix(TokensOf(fIn)[i])
     /\ \E i \in 1..Len(TokensOf(fIn)) : IsRecognized(TokensOf(fIn)[i]))
        => fOut = Join(ExpectedClasses(TokensOf(fIn)), << " " >>)

\* C15: when every token of the input has one of the prefixes simple: ,
\* simple_ or simple- , every class token of the result consists only of
\* lower-case letters, digits, '_' and '-'.
C15_PassthroughSanitized ==
    (/\ fPc = "mapped"
     /\ TokensOf(fIn) # <<>>
     /\ \A i \in 1..Len(TokensOf(fIn)) : HasPassthroughPrefix(TokensOf(fIn)[i]))
        => \A k \in 1..Len(ClassTokens(fOut)) :
               \A n \in 1..Len(ClassTokens(fOut)[k]) : ClassTokens(fOut)[k][n] \in SafeChars

-----------------------------------------------------------------------------
(* transformNode on a text node *)

TextAlphabet == {"&", "<", ">", "\"", "'", Nbsp, ";", "a"}

\* Texts that already look like entities or markup.
NamedTexts ==
    { << "&", "a", "m", "p", ";" >>,
      << "&", "q", "u", "o", "t", ";", "x" >>,
      << "a", "&", "#", "3", "9", ";", "b" >>,
      << "&", "n", "b", "s", "p", ";" >>,
      << "<", "b", ">", "&", "<", "/", "b", ">" >>,
      << "T", "o", "m", " ", "&", " ", "\"", "C", "o", "\"", " ", "<", "x", ">", "'", "s" >> }

TextNodes == { T(text) : text \in SeqsUpTo(TextAlphabet, MaxLen) \cup NamedTexts }

InitText ==
    /\ InitEngine
    /\ session = FALSE
    /\ AppOff
    /\ fIn \in TextNodes
    /\ fOut = <<>>
    /\ fOut2 = <<>>
    /\ fPc = "transformNode"

\* if (node.nodeType === Node.TEXT_NODE) return escapeHTML(node.textContent)
TransformTextNode ==
    /\ fPc = "transformNode"
    /\ IsText(fIn)
    /\ fOut' = EscapeHTML(fIn.text)
    /\ fPc' = "returned"
    /\ UNCHANGED << fIn, fOut2 >>

NextText == TransformTextNode /\ UNCHANGED << engineVars, appVars >>

SpecText == InitText /\ [][NextText]_vars

-----------------------------------------------------------------------------
(* Properties of text node output *)

\* The character references an HTML parser resolves in the output.
Entities ==
    << << << "&", "a", "m", "p", ";" >>, "&" >>,
       << << "&", "l", "t", ";" >>, "<" >>,
       << << "&", "g", "t", ";" >>, ">" >>,
       << << "&", "q", "u", "o", "t", ";" >>, "\"" >>,
       << << "&", "#", "3", "9", ";" >>, "'" >>,
       << << "&", "n", "b", "s", "p", ";" >>, Nbsp >> >>

\* What a reader of the HTML sees: every character reference resolved,
\* left to right.
RECURSIVE Unescape(_)
Unescape(html) ==
    IF html = <<>> THEN <<>>
    ELSE LET hits == { i \in 1..Len(Entities) :
                         /\ Len(html) >= Len(Entities[i][1])
                         /\ SubSeq(html, 1, Len(Entities[i][1])) = Entities[i][1] }
         IN  IF hits = {} THEN << Head(html) >> \o Unescape(Tail(html))
             ELSE LET e == Entities[CHOOSE i \in hits : TRUE]
                  IN  << e[2] >> \o Unescape(SubSeq(html, Len(e[1]) + 1, Len(html)))

\* The entity of character c when c is one of the characters of set, else
\* c itself.
EntityWithin(c, set) ==
    IF c \in set
    THEN Entities[CHOOSE i \in 1..Len(Entities) : Entities[i][2] = c][1]
    ELSE << c >>

Replaced(text, set) == Concat([i \in 1..Len(text) |-> EntityWithin(text[i], set)])

\* C16 as stated: the output of a text node is its text with each of the
\* five characters & < > " ' replaced by its entity and nothing else
\* changed, and unescaping the output gives the text back.
C16_FiveCharactersEscaped ==
    fPc = "returned" =>
        /\ fOut = Replaced(fIn.text, {"&", "<", ">", "\"", "'"})
        /\ Unescape(fOut) = fIn.text

\* C16: the output of a text node is its text with each & < > and each
\* no-break space replaced by its entity and nothing else changed (the two
\* quote characters stay as they are), and unescaping the output gives the
\* text back exactly.
C16_TextEscapedRoundTrip ==
    fPc = "returned" =>
        /\ fOut = Replaced(fIn.text, {"&", "<", ">", Nbsp})
        /\ Unescape(fOut) = fIn.text

C16_Witness ==
    /\ fPc = "returned"
    /\ fIn.text = << "T", "o", "m", " ", "&", " ", "\"", "C", "o", "\"", " ", "<", "x", ">", "'", "s" >>
    /\ fOut = << "T", "o", "m", " ", "&", "a", "m", "p", ";", " ", "\"", "C", "o", "\"", " ", "&", "l", "t", ";", "x", "&", "g", "t", ";", "'", "s" >>

-----------------------------------------------------------------------------
(* Properties of line breaks *)

\* The step that handles an lb element.
AtLb == Running("TN", "switch") /\ TopNode.tag = "lb"

IsBr(token) == token.k = "lit" /\ token.v = "<br>"

\* C17: in normalized mode the visit of an lb returns nothing, whatever its
\* @break and wherever it stands, and no line break is in the body or back
\* of the result; in the other mode the visit returns a hyphen followed by
\* a line break when @break is "no" and a line break alone otherwise.
C17_LineBreaks ==
    /\ [][AtLb =>
            /\ stack' = Popped
            /\ IF normalizedMode THEN ret' = <<>>
               ELSE IF \E i \in 1..Len(TopNode.attrs) :
                          TopNode.attrs[i] = << "break", << "n", "o" >> >>
                    THEN ret' = << Lit("-"), Lit("<br>") >>
                    ELSE ret' = << Lit("<br>") >>
         ]_vars
    /\ []((stack = <<>> /\ held.valid /\ normalizedMode) =>
            /\ \A k \in 1..Len(held.body) : ~IsBr(held.body[k])
            /\ \A k \in 1..Len(held.back) : ~IsBr(held.back[k]))

\* A document with an lb whose @break is "no" has been transformed in
\* normalized mode: the two texts around the lb are next to each other.
C17_Witness ==
    /\ stack = <<>>
    /\ held.valid
    /\ normalizedMode
    /\ \E p \in { Descendants(doc, <<>>)[i] : i \in 1..Len(Descendants(doc, <<>>)) } :
          /\ NodeAt(doc, p).tag = "lb"
          /\ NodeAt(doc, p).attrs = << << "break", << "n", "o" >> >> >>
    /\ \E k \in 1..(Len(held.body) - 1) :
          /\ held.body[k] = TextTok(<< "a" >>)
          /\ held.body[k + 1] = TextTok(<< "b" >>)

-----------------------------------------------------------------------------
(* Properties of choice *)

\* The first child of the element at path with that local name, Null when
\* it has none.
ChildNamed(d, path, tag) ==
    LET hits == { i \in 1..Len(NodeAt(d, path).kids) : NodeAt(d, path).kids[i].tag = tag }
    IN  IF hits = {} THEN Null
        ELSE path \o << CHOOSE i \in hits : \A j \in hits : i <= j >>

\* The innermost call is at a choice that has a sic and a corr of its own
\* and no abbr/expan or orig/reg pair.
AtSicCorrChoice(pc) ==
    /\ Running("TN", pc)
    /\ TopNode.tag = "choice"
    /\ ChildNamed(doc, Top.path, "sic") # Null
    /\ ChildNamed(doc, Top.path, "corr") # Null
    /\ \A pair \in { << "abbr", "expan" >>, << "orig", "reg" >> } :
          \/ QuerySelectorAll(doc, Top.path, pair[1]) = <<>>
          \/ QuerySelectorAll(doc, Top.path, pair[2]) = <<>>

\* C18: a choice with a sic and a corr renders the children of its sic as
\* the visible content of a span whose tooltip is 'Korrektur: ' followed by
\* the text of its corr; the corr takes no part in the visible content,
\* however sic and corr are arranged.
C18_SicVisibleCorrInTooltip ==
    /\ [][AtSicCorrChoice("switch") =>
            stack'[Len(stack')] =
                Frame("TC", ChildNamed(doc, Top.path, "sic"), "loop")]_vars
    /\ [][AtSicCorrChoice("choiceRet") =>
            ret' = Wrap("span.text-critical",
                        << Lit("Korrektur: ") >>
                            \o TipText(Trim(TextContent(
                                   NodeAt(doc, ChildNamed(doc, Top.path, "corr"))))),
                        "textcritical", ret)]_vars

-----------------------------------------------------------------------------
(* The page: handleFile, processXML, renderDocument *)

\* File loads one session starts.
MaxLoads == 3

\* What DOMParser returns for text that is not well-formed XML: a document
\* that holds a parsererror element.
Malformed == E("parsererror", <<>>, <<>>)

\* A file: its name, the document its text parses to, and whether the
\* document nests deeper than the call stack of the walk allows.
File(name, content, deep) == [name |-> name, content |-> content, deep |-> deep]

\* The documents of the files: one with a header and a back but no body,
\* one with a body only.
WithoutBody == CHOOSE d \in SessionDocs : DocQuerySelector(d, "body") = Null

BodyOnly == CHOOSE d \in SessionDocs : DocQuerySelector(d, "lb") # Null

Files ==
    { File(<< "a", ".", "x", "m", "l" >>, WithoutBody, FALSE),
      File(<< "b", ".", "x", "m", "l" >>, BodyOnly, FALSE),
      File(<< "C", ".", "X", "M", "L" >>, Malformed, FALSE),
      File(<< "c", ".", "t", "x", "t" >>, Malformed, FALSE),
      File(<< "d", ".", "x", "m", "l" >>, BodyOnly, TRUE) }

\* file.name.toLowerCase().endsWith('.xml')
EndsWithXml(name) ==
    /\ Len(name) >= 4
    /\ SubSeq(ToLowerCase(name), Len(name) - 3, Len(name)) = << ".", "x", "m", "l" >>

\* A faulty variant: the error handler also goes back to the dropzone.
ShowErrorAndDropzone(p, message) ==
    [p EXCEPT !.errorMessage = message, !.errorShown = TRUE, !.view = "dropzone"]

\* showError(message): the text is set and the dialog is shown.
showError(p, message) == [p EXCEPT !.errorMessage = message, !.errorShown = TRUE]

\* No event handler is running: the call stack is empty and no load is
\* inside processXML.
Idle ==
    /\ stack = <<>>
    /\ \A i \in 1..Len(loads) : loads[i].status # "processing"

\* History: the result a load rendered, its footnote list by content.
Shown(r, list) ==
    [summary |-> r.summary, body |-> r.body, back |-> r.back,
     footnotes |-> list, registers |-> r.registers]

NoShown == Shown(NoResult, <<>>)

\* handleFile(file): a file that is not named *.xml is refused; for any
\* other a FileReader is created and readAsText is started.
HandleFile(file) ==
    /\ Idle
    /\ Len(loads) < MaxLoads
    /\ IF ~EndsWithXml(file.name)
       THEN /\ page' = showError(page, "Bitte nur XML-Dateien hochladen.")
            /\ loads' = loads
       ELSE /\ loads' = Append(loads, [file |-> file, status |-> "reading",
                                       shown |-> NoShown])
            /\ page' = page
    /\ UNCHANGED << engineVars, funVars, tipVars >>

\* The FileReader has read the whole file: its load event is queued. This
\* happens in the background, whatever the page is running.
ReadCompletes(i) ==
    /\ loads[i].status = "reading"
    /\ loads' = [loads EXCEPT ![i].status = "loaded"]
    /\ UNCHANGED << engineVars, funVars, tipVars, page >>

\* reader.onerror: the read failed.
ReaderOnerror(i) ==
    /\ Idle
    /\ loads[i].status = "reading"
    /\ page' = showError(page, "Fehler beim Lesen der Datei.")
    /\ loads' = [loads EXCEPT ![i].status = "failed"]
    /\ UNCHANGED << engineVars, funVars, tipVars >>

\* parseXML throws when the parsed document holds a parsererror element.
ParseThrows(content) == DocQuerySelector(content, "parsererror") # Null

\* reader.onload with a text that does not parse: processXML catches the
\* error of QZHParser.parse and shows it.
OnloadParseError(i) ==
    /\ Idle
    /\ loads[i].status = "loaded"
    /\ ParseThrows(loads[i].file.content)
    /\ page' = showError(page, "Fehler beim Verarbeiten der XML-Datei: XML Parse Error")
    /\ loads' = [loads EXCEPT ![i].status = "failed"]
    /\ UNCHANGED << engineVars, funVars, tipVars >>

\* reader.onload with a text that parses: processXML calls
\* QZHParser.transform(xmlDoc), normalized left at its default.
OnloadTransform(i) ==
    /\ Idle
    /\ loads[i].status = "loaded"
    /\ ~ParseThrows(loads[i].file.content)
    /\ TransformEnter(loads[i].file.content, FALSE)
    /\ loads' = [loads EXCEPT ![i].status = "processing"]
    /\ UNCHANGED << funVars, tipVars, page >>

\* The walk of a document that nests too deep exhausts the call stack at
\* some call of transformNode: the RangeError leaves transform() and is
\* caught in processXML.
TransformThrows(i) ==
    /\ loads[i].status = "processing"
    /\ loads[i].file.deep
    /\ Running("TN", "enter")
    /\ Throw
    /\ page' = showError(page, "Fehler beim Verarbeiten der XML-Datei: Maximum call stack size exceeded")
    /\ loads' = [loads EXCEPT ![i].status = "failed"]
    /\ UNCHANGED << funVars, tipVars >>

\* if (x) in renderDocument for an HTML string: neither null nor empty.
Truthy(html) == html # NullHtml /\ html # <<>>

NoContent(text) == << Lit(text) >>

\* renderFootnotes: the list is appended to the body when it is not empty.
renderFootnotes(list) ==
    IF list = <<>> THEN <<>>
    ELSE << Tok("footnotes", "div.footnotes", Len(list), <<>>,
                Concat([k \in 1..Len(list) |-> list[k].content]), "") >>

\* renderRegisters: the names of the places and of the persons.
renderRegisters(registers) ==
    [places |-> [k \in 1..Len(registers.places) |-> registers.places[k].name],
     persons |-> [k \in 1..Len(registers.persons) |-> registers.persons[k].name]]

\* renderDocument(result, filename). heading and metadata are null for a
\* document without teiHeader: the header fields then keep what they
\* showed. What heading and metadata hold is identified by the file.
renderDocument(p, r, list, file) ==
    LET hasHeader == DocQuerySelector(file.content, "teiHeader") # Null
    IN  [p EXCEPT
           !.header = IF hasHeader THEN << file >> ELSE @,
           !.metadata = IF hasHeader THEN << file >>
                        ELSE NoContent("Keine Metadaten vorhanden"),
           !.body = (IF Truthy(r.body) THEN r.body
                     ELSE NoContent("Kein Inhalt vorhanden")) \o renderFootnotes(list),
           !.back = IF Truthy(r.back) THEN r.back
                    ELSE NoContent("Kein Kommentar vorhanden"),
           !.regest = IF r.summary # <<>> THEN r.summary
                      ELSE NoContent("Kein Regest vorhanden"),
           !.registers = << renderRegisters(r.registers) >>]

\* showPreview()
showPreview(p) == [p EXCEPT !.view = "preview"]

\* transform() has returned inside processXML: renderDocument and
\* showPreview follow in the same handler.
Render(i) ==
    /\ loads[i].status = "processing"
    /\ stack = <<>>
    /\ held.valid
    /\ page' = showPreview(renderDocument(page, held, heap[held.footnotes],
                                          loads[i].file))
    /\ loads' = [loads EXCEPT
                   ![i].status = "rendered",
                   ![i].shown = Shown(held, heap[held.footnotes])]
    /\ UNCHANGED << engineVars, funVars, tipVars >>

NextApp ==
    \/ \E file \in Files : HandleFile(file)
    \/ \E i \in 1..Len(loads) : ReadCompletes(i)
    \/ \E i \in 1..Len(loads) : ReaderOnerror(i)
    \/ \E i \in 1..Len(loads) : OnloadParseError(i)
    \/ \E i \in 1..Len(loads) : OnloadTransform(i)
    \/ \E i \in 1..Len(loads) : TransformThrows(i)
    \/ EngineStep /\ UNCHANGED << funVars, appVars >>
    \/ \E i \in 1..Len(loads) : Render(i)

SpecApp == Init /\ [][NextApp]_vars

-----------------------------------------------------------------------------
(* Properties of the page *)

\* What the page displays of a document, and which of dropzone and
\* preview it shows.
Displayed(p) ==
    [header |-> p.header, metadata |-> p.metadata, body |-> p.body,
     back |-> p.back, regest |-> p.regest, registers |-> p.registers,
     view |-> p.view]

ProcessingErrors ==
    { "Fehler beim Verarbeiten der XML-Datei: XML Parse Error",
      "Fehler beim Verarbeiten der XML-Datei: Maximum call stack size exceeded" }

\* Load i has been handed to processXML and has not ended.
InProcessXML(i) == loads[i].status \in {"loaded", "processing"}

\* C19: the step in which parse or transform fails for a load shows the
\* error dialog with the message of the failure and leaves everything the
\* page displayed as it was; and the page displays something new only in
\* the step that renders a load whose parse and transform succeeded, so
\* nothing of a failing load is rendered before it fails.
C19_FailedLoadCommitsNothing ==
    /\ [][\A i \in 1..Len(loads) :
             (InProcessXML(i) /\ loads'[i].status = "failed") =>
                 /\ page'.errorShown
                 /\ page'.errorMessage \in ProcessingErrors
                 /\ Displayed(page') = Displayed(page)]_vars
    /\ [][(\A i \in 1..Len(loads) :
              loads'[i].status = "rendered" => loads[i].status = "rendered")
             => Displayed(page') = Displayed(page)]_vars

\* A load whose transform threw has failed after another load had been
\* rendered: the preview still shows the rendered document.
C19_Witness ==
    /\ stack = <<>>
    /\ threw
    /\ doc = BodyOnly
    /\ \E i, j \in 1..Len(loads) :
          /\ loads[i].status = "rendered"
          /\ loads[j].status = "failed"
          /\ loads[j].file.deep
    /\ \A i \in 1..Len(loads) :
          loads[i].status = "rendered" => loads[i].file.content = WithoutBody
    /\ page.view = "preview"
    /\ page.header = << loads[CHOOSE i \in 1..Len(loads) : loads[i].status = "rendered"].file >>
    /\ page.errorShown
    /\ page.errorMessage
          = "Fehler beim Verarbeiten der XML-Datei: Maximum call stack size exceeded"

\* The loads inside a call of transform().
Processing == { i \in 1..Len(loads) : loads[i].status = "processing" }

\* C20: however the loads are started and their reads complete, a call of
\* transform() starts only for a load whose read has completed, on that
\* load's document; while the call runs it is the only load in processXML,
\* no other call starts and the counter is not reset; and the results
\* rendered for two loads of the same document are equal, whatever was
\* loaded before or between them (the first call of a session runs alone).
C20_LoadsDoNotInterleave ==
    /\ [][(stack = <<>> /\ stack' # <<>>) =>
             \E i \in 1..Len(loads) :
                /\ loads[i].status = "loaded"
                /\ loads'[i].status = "processing"
                /\ doc' = loads[i].file.content]_vars
    /\ [](stack # <<>> =>
             \E i \in Processing :
                /\ Processing = {i}
                /\ doc = loads[i].file.content)
    /\ [][(stack # <<>> /\ stack' # <<>>) =>
             /\ doc' = doc
             /\ footnoteCounter' >= footnoteCounter
             /\ footnotes' = footnotes
             /\ Processing' = Processing]_vars
    /\ [](\A i, j \in 1..Len(loads) :
             (/\ loads[i].status = "rendered"
              /\ loads[j].status = "rendered"
              /\ loads[i].file.content = loads[j].file.content)
                 => loads[i].shown = loads[j].shown)

\* Three loads have been rendered, the last call on a document that was
\* also loaded before, with another document transformed in between or
\* before it.
C20_Witness ==
    /\ stack = <<>>
    /\ Len(loads) = 3
    /\ \A i \in 1..3 : loads[i].status = "rendered"
    /\ loads[1].file.content = WithoutBody
    /\ loads[2].file.content = BodyOnly
    /\ loads[3].file.content = WithoutBody
    /\ doc = WithoutBody
    /\ prevDoc = BodyOnly
    /\ Len(loads[1].shown.footnotes) >= 1
    /\ loads[1].shown = loads[3].shown

-----------------------------------------------------------------------------
(* Properties of semantic elements *)

\* The accumulator of a register, now and after the step.
Accumulator(r) ==
    CASE r = "persons" -> persons
      [] r = "places" -> places
      [] r = "organizations" -> organizations
      [] r = "terms" -> terms

AccumulatorAfter(r) ==
    CASE r = "persons" -> persons'
      [] r = "places" -> places'
      [] r = "organizations" -> organizations'
      [] r = "terms" -> terms'

\* Whether an element below the root has a teiHeader among its ancestors.
HasHeaderAncestor(d, path) ==
    \E k \in 0..(Len(path) - 1) : NodeAt(d, SubSeq(path, 1, k)).tag = "teiHeader"

\* A visit has reached the switch of transformNode on a semantic element.
AtSemanticVisit ==
    /\ Running("TN", "switch")
    /\ \/ TopNode.tag \in {"persName", "placeName", "origPlace", "orgName"}
       \/ TopNode.tag = "term" /\ ~HasHeaderAncestor(doc, Top.path)

KeySet(entries) == { KeyOfEntry(entries[i]) : i \in 1..Len(entries) }

\* C21: each visit of a persName, placeName, origPlace, orgName or a term
\* outside the header appends exactly one entry {name, ref, role} to the
\* accumulator of its register and leaves the other accumulators alone;
\* during a call no accumulator loses or changes an entry; and the
\* registers of the result have the keys of the entries appended.
C21_OneEntryPerVisit ==
    [][ /\ AtSemanticVisit =>
            \A r \in RegisterNames :
                AccumulatorAfter(r) =
                    IF TopNode.tag \in TagsOfRegister(r)
                    THEN Append(Accumulator(r),
                                [name |-> Trim(TextContent(TopNode)),
                                 ref |-> Attr(TopNode, "ref"),
                                 role |-> Attr(TopNode, "role")])
                    ELSE Accumulator(r)
        /\ stack # <<>> =>
            \A r \in RegisterNames :
                /\ Len(AccumulatorAfter(r)) >= Len(Accumulator(r))
                /\ SubSeq(AccumulatorAfter(r), 1, Len(Accumulator(r))) = Accumulator(r)
        /\ Running("transform", "finish") =>
            \A r \in RegisterNames :
                KeySet(held'.registers[r]) = KeySet(Accumulator(r)) ]_vars

\* A call has returned whose document has entities of three registers, an
\* origPlace among them, and a person visited more often than the register
\* has entries.
C21_Witness ==
    /\ held.valid
    /\ stack = <<>>
    /\ ~threw
    /\ Len(persons) > Len(held.registers.persons)
    /\ Len(places) >= 1
    /\ \E i \in 1..Len(places) : places[i].name = << "a", "b" >>
    /\ Len(held.registers.places) = Len(places)

\* A visit has reached the switch of transformNode on a term.
AtTerm == Running("TN", "switch") /\ TopNode.tag = "term"

\* The rendering of a semantic element of a kind around its children: one
\* span.semantic with a tooltip of that kind.
IsSemanticSpan(html, kind, children) ==
    /\ Len(html) = Len(children) + 2
    /\ html[1].k = "open"
    /\ html[1].v = "span.semantic"
    /\ html[1].tt = kind
    /\ html[1].tip # <<>>
    /\ SubSeq(html, 2, Len(html) - 1) = children
    /\ html[Len(html)].k = "close"

\* C22: a term with a teiHeader ancestor is rendered as its children alone
\* and adds no entry to any accumulator; a term with no teiHeader ancestor
\* is rendered as a semantic element of kind term and adds exactly one
\* entry to terms.
C22_TermInsideAndOutsideHeader ==
    [][ AtTerm =>
          IF HasHeaderAncestor(doc, Top.path)
          THEN /\ ret' = ret
               /\ \A r \in RegisterNames : AccumulatorAfter(r) = Accumulator(r)
          ELSE /\ IsSemanticSpan(ret', "term", ret)
               /\ Len(terms') = Len(terms) + 1
               /\ \A r \in RegisterNames \ {"terms"} :
                     AccumulatorAfter(r) = Accumulator(r) ]_vars

\* A call has returned on a document with a term inside the summary of the
\* header: the regest has the term's text and no span, and terms is empty.
C22_Witness ==
    /\ held.valid
    /\ stack = <<>>
    /\ ~threw
    /\ terms = <<>>
    /\ LET path == DocQuerySelector(doc, "term")
       IN  /\ path # Null
           /\ HasHeaderAncestor(doc, path)
           /\ NodeAt(doc, SubSeq(path, 1, Len(path) - 1)).tag = "summary"
    /\ \E i \in 1..Len(held.summary) : held.summary[i] = TextTok(<< "z" >>)
    /\ \A i \in 1..Len(held.summary) : held.summary[i].tt # "term"

-----------------------------------------------------------------------------
(* transformNode(node) for a hi element *)

\* The name of an attribute as text.
AttrNameText(name) ==
    CASE name = "rend" -> << "r", "e", "n", "d" >>
      [] name = "hand" -> << "h", "a", "n", "d" >>
      [] name = "type" -> << "t", "y", "p", "e" >>
      [] name = "n" -> << "n" >>

\* labelMap[attr.name] || attr.name for the label map of case 'hi'.
HiLabel(name) ==
    CASE name = "rend" -> << "D", "a", "r", "s", "t", "e", "l", "l", "u", "n", "g" >>
      [] name = "hand" -> << "H", "a", "n", "d" >>
      [] name = "type" -> << "T", "y", "p" >>
      [] OTHER -> AttrNameText(name)

\* The parts of buildAttributeTooltip: `${label}: ${attr.value}` for each
\* attribute with a value that is not empty, in the order of the attributes.
RECURSIVE TooltipParts(_)
TooltipParts(attrs) ==
    IF attrs = <<>> THEN <<>>
    ELSE IF Head(attrs)[2] = <<>> THEN TooltipParts(Tail(attrs))
    ELSE << HiLabel(Head(attrs)[1]) \o << ":", " " >> \o Head(attrs)[2] >>
         \o TooltipParts(Tail(attrs))

\* buildAttributeTooltip(node, labelMap): '' without attributes, else the
\* parts joined by ' | '.
buildAttributeTooltip(node) ==
    IF node.attrs = <<>> THEN <<>>
    ELSE Join(TooltipParts(node.attrs), << " ", "|", " " >>)

Annotated == << " ", "t", "e", "i", "-", "h", "i", "-", "a", "n", "n", "o", "t", "a", "t", "e", "d" >>

\* case 'hi': the span with its classes in s and, when the tooltip is not
\* empty, the data-tooltip / data-tooltip-type pair.
HiHtml(node, children) ==
    LET hiClass == getRenditionClass(Attr(node, "rend"))
        hiTooltip == buildAttributeTooltip(node)
    IN  << Tok("open", "span", 0,
               IF hiTooltip # <<>> THEN hiClass \o Annotated ELSE hiClass,
               IF hiTooltip # <<>> THEN << TextTok(EscapeAttr(hiTooltip)) >> ELSE <<>>,
               IF hiTooltip # <<>> THEN "textcritical" ELSE "") >>
        \o children \o << Close("span") >>

\* Attribute lists of a hi: each of rend, hand, type, n absent, empty or
\* with a value, with rend first or last.
RendValues == { <<>>, << "b", "o", "l", "d" >>, << "f", "o", "o" >>, << "s", "u", "p", " ", "s", "u", "b" >> }

HiAttrLists ==
    LET opt(name, values) == { <<>> } \cup { << << name, v >> >> : v \in values }
        rest == { h \o t \o n : h \in opt("hand", { <<>>, << "B" >> }),
                                t \in opt("type", { << "x", "<" >> }),
                                n \in opt("n", { << "1" >> }) }
    IN  { r \o x : r \in opt("rend", RendValues), x \in rest }
        \cup { x \o r : r \in opt("rend", RendValues), x \in rest }

HiNodes == { E("hi", attrs, kids) : attrs \in HiAttrLists, kids \in { <<>>, << TextA >> } }

InitHi ==
    /\ InitEngine
    /\ session = FALSE
    /\ AppOff
    /\ fIn \in HiNodes
    /\ fOut = <<>>
    /\ fOut2 = <<>>
    /\ fPc = "transformNode"

\* transformNode on a hi whose children are text: children is the escaped
\* text of the children, then the switch reaches case 'hi'.
TransformHi ==
    /\ fPc = "transformNode"
    /\ fIn.tag = "hi"
    /\ fOut' = HiHtml(fIn, [i \in 1..Len(fIn.kids) |-> TextTok(EscapeHTML(fIn.kids[i].text))])
    /\ fPc' = "returned"
    /\ UNCHANGED << fIn, fOut2 >>

NextHi == TransformHi /\ UNCHANGED << engineVars, appVars >>

SpecHi == InitHi /\ [][NextHi]_vars

-----------------------------------------------------------------------------
(* Properties of hi elements *)

\* The attributes of a hi other than rend that have a value.
OtherAnnotations(node) ==
    { i \in 1..Len(node.attrs) : node.attrs[i][1] # "rend" /\ node.attrs[i][2] # <<>> }

HasClassAnnotated(classes) ==
    /\ Len(classes) >= Len(Annotated)
    /\ SubSeq(classes, Len(classes) - Len(Annotated) + 1, Len(classes)) = Annotated

\* C23: a hi with an attribute other than rend that has a value gets a
\* tooltip and the class tei-hi-annotated; a hi whose only attribute is
\* rend gets the classes of its rendition and no tooltip.
C23_TooltipOnlyForOtherAttributes ==
    fPc = "returned" =>
        /\ OtherAnnotations(fIn) # {} =>
              /\ fOut[1].tip # <<>>
              /\ HasClassAnnotated(fOut[1].s)
        /\ (Len(fIn.attrs) = 1 /\ fIn.attrs[1][1] = "rend") =>
              /\ fOut[1].tip = <<>>
              /\ fOut[1].s = getRenditionClass(fIn.attrs[1][2])
-----------------------------------------------------------------------------
(* Properties of footnote counting *)

\* An element stands in a part of the document that transform() walks: in
\* the summary, the body or the back matter.
InTransformedPart(d, path) ==
    \E k \in 1..(Len(path) - 1) :
        NodeAt(d, SubSeq(path, 1, k)).tag \in {"summary", "body", "back"}

TransformedFootnoteElements(d) ==
    { path \in FootnoteElements(d) : InTransformedPart(d, path) }

\* C24: the result of a transform() call has as many footnotes as the
\* transformed parts of the document have non-marginal note elements and
\* handShift elements, wherever these elements stand.
C24_EachFootnoteElementCountedOnce ==
    (held.valid /\ stack = <<>> /\ ~threw) =>
        Len(HeldFootnotes) = Cardinality(TransformedFootnoteElements(doc))

\* The visible content of the result: the tokens of summary, body and back
\* themselves (what stands inside a tooltip is held in the tip of a token).
VisibleContent(r) == r.summary \o r.body \o r.back

\* How many footnote references of a number the visible content holds.
VisibleReferences(r, number) ==
    Cardinality({ i \in 1..Len(VisibleContent(r)) :
                    /\ VisibleContent(r)[i].k = "fnref"
                    /\ VisibleContent(r)[i].n = number })

\* C25: for every footnote of the result there is exactly one footnote
\* reference with its number in the visible content of summary, body or
\* back.
C25_EachFootnoteReferencedOnce ==
    (held.valid /\ stack = <<>> /\ ~threw) =>
        \A i \in 1..Len(HeldFootnotes) :
            VisibleReferences(held, HeldFootnotes[i].number) = 1
-----------------------------------------------------------------------------
(* Properties of the back matter *)

\* The p elements below a node, in document order.
ParagraphsBelow(d, path) ==
    LET all == Descendants(d, path)
    IN  SelectSeq(all, LAMBDA q : NodeAt(d, q).tag = "p")

\* The paragraphs a rendering opens.
EmittedParagraphs(html) ==
    Cardinality({ i \in 1..Len(html) :
                    html[i].k = "open" /\ html[i].v \in {"p", "p.tei-p"} })

IsBelow(path, ancestor) ==
    /\ Len(path) > Len(ancestor)
    /\ SubSeq(path, 1, Len(ancestor)) = ancestor

\* C26: the back of a result has each p element of the back matter exactly
\* once, however the divs of the back matter are nested, and a
\* footnote-producing element that is a child of such a p is registered
\* once.
C26_BackParagraphsOnce ==
    (held.valid /\ stack = <<>> /\ ~threw /\ DocQuerySelector(doc, "back") # Null) =>
        LET back == DocQuerySelector(doc, "back")
        IN  /\ EmittedParagraphs(held.back) = Len(ParagraphsBelow(doc, back))
            /\ \A path \in FootnoteElements(doc) :
                  (/\ IsBelow(path, back)
                   /\ NodeAt(doc, SubSeq(path, 1, Len(path) - 1)).tag = "p")
                      => TimesNumbered(path) = 1
-----------------------------------------------------------------------------
(* Properties of successive renderings *)

\* Load i is rendered in this step.
Rendering(i) == loads[i].status = "processing" /\ loads'[i].status = "rendered"

\* What the page displays when the result of a load is rendered on the
\* page as it is before any document.
OnFreshPage(r, list, file) == Displayed(showPreview(renderDocument(NoPage, r, list, file)))

\* C27: after a document has been rendered the page displays in every
\* field what it displays when that document is the first one rendered;
\* nothing of a document rendered earlier is left.
C27_NothingOfEarlierDocument ==
    [][\A i \in 1..Len(loads) :
          Rendering(i) =>
              Displayed(page') = OnFreshPage(held, heap[held.footnotes], loads[i].file)]_vars

\* Every load has ended, at least two files were chosen, and the file
\* chosen last was rendered.
AllLoadsEnded ==
    /\ Len(loads) >= 2
    /\ \A i \in 1..Len(loads) : loads[i].status \in {"rendered", "failed"}
    /\ loads[Len(loads)].status = "rendered"

\* What the page displays apart from the header fields.
DisplayedContent(d) == [d EXCEPT !.header = <<>>]

\* C28: when files were chosen one after the other and every read has been
\* handled, the preview shows the file chosen last, in whatever order the
\* reads completed.
C28_LastChosenFileShown ==
    AllLoadsEnded =>
        LET last == loads[Len(loads)]
        IN  DisplayedContent(Displayed(page)) =
                DisplayedContent(OnFreshPage(last.shown, last.shown.footnotes, last.file))
-----------------------------------------------------------------------------
(* The tooltip widget (tooltips.js) *)

MaxTimers == 4

\* The elements of the page the pointer can be on: the background, an
\* element without data-tooltip, one with an empty data-tooltip, one with a
\* tooltip, and a tooltip element nested in another.
PageElements == {"body", "plain", "empty", "other", "outer", "inner"}

\* target.hasAttribute('data-tooltip')
HasDataTooltip(el) == el \in {"empty", "other", "outer", "inner"}

\* target.getAttribute('data-tooltip')
DataTooltip(el) ==
    CASE el = "other" -> "X"
      [] el = "outer" -> "O"
      [] el = "inner" -> "I"
      [] OTHER -> ""

\* target.getAttribute('data-tooltip-type') || ''
DataTooltipType(el) ==
    CASE el = "other" -> "person"
      [] el = "inner" -> "note"
      [] OTHER -> ""

\* The element with its ancestors below the background, outermost first.
Ancestry(el) ==
    CASE el = "body" -> <<>>
      [] el = "inner" -> << "outer", "inner" >>
      [] OTHER -> << el >>

Reverse(seq) == [i \in 1..Len(seq) |-> seq[Len(seq) + 1 - i]]

Within(el, seq) == \E i \in 1..Len(seq) : seq[i] = el

\* The mouseleave events of a pointer move, innermost element first, and
\* its mouseenter events, outermost element first.
LeftElements(from, to) ==
    SelectSeq(Reverse(Ancestry(from)), LAMBDA el : ~Within(el, Ancestry(to)))

EnteredElements(from, to) ==
    SelectSeq(Ancestry(to), LAMBDA el : ~Within(el, Ancestry(from)))

\* hideTooltip()
hideTooltip(s) == [s EXCEPT !.visible = FALSE, !.currentTarget = NoTarget]

\* showTooltip(target, text, type): the content is set, className =
\* 'tooltip' drops the class visible, and a callback that adds it is
\* requested for the next animation frame.  Every pending callback does the
\* same and all run in the same frame, so one flag stands for them.
showTooltip(s, text, type) ==
    [s EXCEPT !.text = text, !.type = type, !.visible = FALSE,
              !.framePending = TRUE]

\* handleMouseEnter(e): clearTimeout(hideTimeout) removes the timer whose
\* handle hideTimeout holds, if it is still pending.
handleMouseEnter(s, target) ==
    IF ~HasDataTooltip(target) THEN s
    ELSE LET cleared == [s EXCEPT !.timers = @ \ { s.hideTimeout },
                                  !.currentTarget = target]
         IN  IF DataTooltip(target) = "" THEN cleared
             ELSE showTooltip(cleared, DataTooltip(target), DataTooltipType(target))

\* handleMouseLeave(e): hideTimeout = setTimeout(hideTooltip, 100), a new
\* timer with a new handle.
handleMouseLeave(s, target) ==
    IF ~HasDataTooltip(target) THEN s
    ELSE [s EXCEPT !.hideTimeout = s.nextId,
                   !.timers = @ \cup { s.nextId },
                   !.nextId = @ + 1]

RECURSIVE AfterMouseLeaves(_, _)
AfterMouseLeaves(s, targets) ==
    IF targets = <<>> THEN s
    ELSE AfterMouseLeaves(handleMouseLeave(s, Head(targets)), Tail(targets))

RECURSIVE AfterMouseEnters(_, _)
AfterMouseEnters(s, targets) ==
    IF targets = <<>> THEN s
    ELSE AfterMouseEnters(handleMouseEnter(s, Head(targets)), Tail(targets))

\* The pointer moves to another element: the browser dispatches the
\* mouseleave events and then the mouseenter events of the move, and the
\* capturing listeners of the document handle each of them.
PointerMove(to) ==
    /\ to # pointer
    /\ tooltips.nextId + Len(LeftElements(pointer, to)) <= MaxTimers + 1
    /\ tooltips' = AfterMouseEnters(AfterMouseLeaves(tooltips, LeftElements(pointer, to)),
                                    EnteredElements(pointer, to))
    /\ pointer' = to

\* A scroll event anywhere: hideTooltip.
Scroll ==
    /\ tooltips' = hideTooltip(tooltips)
    /\ pointer' = pointer

\* A click on the element under the pointer, which is not inside the
\* tooltip: hideTooltip unless the element has data-tooltip.
Click ==
    /\ tooltips' = IF HasDataTooltip(pointer) THEN tooltips ELSE hideTooltip(tooltips)
    /\ pointer' = pointer

\* A hide timer fires: timers of the same delay fire in the order they
\* were set.
TimerFires ==
    /\ tooltips.timers # {}
    /\ LET id == CHOOSE t \in tooltips.timers : \A u \in tooltips.timers : t <= u
       IN  tooltips' = hideTooltip([tooltips EXCEPT !.timers = @ \ { id }])
    /\ pointer' = pointer

\* The next animation frame: tooltipEl.classList.add('visible').
FrameRuns ==
    /\ tooltips.framePending
    /\ tooltips' = [tooltips EXCEPT !.visible = TRUE, !.framePending = FALSE]
    /\ pointer' = pointer

InitTooltips == InitEngine /\ session = FALSE /\ FunOff /\ AppOff

NextTooltips ==
    \/ (\E to \in PageElements : PointerMove(to)) /\ UNCHANGED << engineVars, funVars, page, loads >>
    \/ Scroll /\ UNCHANGED << engineVars, funVars, page, loads >>
    \/ Click /\ UNCHANGED << engineVars, funVars, page, loads >>
    \/ TimerFires /\ UNCHANGED << engineVars, funVars, page, loads >>
    \/ FrameRuns /\ UNCHANGED << engineVars, funVars, page, loads >>

SpecTooltips == InitTooltips /\ [][NextTooltips]_vars

-----------------------------------------------------------------------------
(* Properties of the tooltip widget *)

\* The pointer is on an element with a tooltip whose mouseenter was handled
\* last and no hideTooltip has run since.
OnShownElement ==
    /\ DataTooltip(pointer) # ""
    /\ tooltips.currentTarget = pointer

\* A hide timer fires in this step.
HideTimerFires ==
    /\ pointer' = pointer
    /\ tooltips'.timers # tooltips.timers

\* C29: at most one hide timer is pending at any time, and after a
\* mouseenter on an element with a tooltip has shown it no hide timer fires
\* while the pointer stays on that element.
C29_EnterCancelsEveryHideTimer ==
    [][ /\ Cardinality(tooltips'.timers) <= 1
        /\ ~(OnShownElement /\ HideTimerFires) ]_vars

\* C30: while no mouseenter on an element with data-tooltip has been
\* handled since hideTooltip ran last, the tooltip is not visible.
C30_HiddenUntilNextEnter ==
    tooltips.currentTarget = NoTarget => ~tooltips.visible
=============================================================================
